---- MODULE Spec2Model ----
(***************************************************************************)
(* BLS aggregate signatures (rust-src/aggregate_sig/src/aggregate_sig.rs). *)
(*                                                                         *)
(* The pairing capability (curve_arithmetic) is modelled symbolically: a   *)
(* point of G_1 or G_2 is its discrete logarithm to the group's generator, *)
(* an element of the target group is its discrete logarithm to             *)
(* e(g1, g2), and the pairing multiplies the logarithms.  The groups have  *)
(* prime order Q.  The additive zero of the target field, which is not in  *)
(* the target group, is field_zero.                                        *)
(***************************************************************************)
EXTENDS Integers, Sequences, FiniteSets, TLC

VARIABLES
    ms,      \* the messages handed to the call under test
    sks,     \* the signers' secret keys; the public keys are derived
    sig,     \* the signature handed to the call under test
    pc,      \* "input", "signed", "verified", "tampered", "reverified"
    op,      \* the last operation applied
    res,     \* the boolean the last verification returned
    tamper,  \* what was changed after the first verification
    ps_key,  \* the Pointcheval-Sanders secret key under test
    ps_in,   \* the arguments of the last Pointcheval-Sanders signing call
    ps_out,  \* what that call returned
    rng,     \* the random number generator: the number of scalars drawn
    ps_log,  \* for every signature returned so far, the draw it was built from
    bkind,   \* the type whose byte encoding is under test
    obj,     \* the value under test, where no other variable holds it
    bsrc,    \* where those bytes come from: "to_bytes" or "received"
    buf,     \* the bytes handed to from_bytes
    dec,     \* what from_bytes returned
    heap,    \* the values behind the addresses the FFI has allocated
    owned,   \* the handles the foreign caller holds, one per returned handle
    ret,     \* what the last FFI call returned, and what it did to the heap
    fs,      \* the identity provider's database: the files in its directories
    pending, \* DB.pending, the map from key to pending entry
    poisoned,\* whether a task panicked while it held the lock on DB.pending
    requests,\* the HTTP requests being served, each with its position
    tasks,   \* the followup tasks spawned, each with its position
    reply,   \* the answer of the last retrieve request
    reported \* what the wallet proxy has answered so far, key by key

blsVars == <<ms, sks, sig, pc, op, res, tamper>>
psVars == <<ps_key, ps_in, ps_out, rng, ps_log>>
bytesVars == <<bkind, obj, bsrc, buf, dec>>
ffiVars == <<heap, owned, ret>>
svcVars == <<fs, pending, poisoned, requests, tasks, reply, reported>>
extVars == <<psVars, bytesVars, ffiVars, svcVars>>

vars == <<blsVars, psVars, bytesVars, ffiVars, svcVars>>

-----------------------------------------------------------------------------
(* Bounds *)

MaxSigners == 3     \* longest key list / batch
NumMsgs == 3        \* number of different messages
NumBatchKeys == 2   \* number of different secret keys in a batch

-----------------------------------------------------------------------------
(* The pairing capability *)

Q == 5              \* the prime order of the scalar field and of G_1, G_2

Scalars == 0 .. (Q - 1)
G_1 == 0 .. (Q - 1)
G_2 == 0 .. (Q - 1)
Messages == 0 .. (NumMsgs - 1)
BatchKeys == 1 .. NumBatchKeys

zero_point == 0
one_point == 1
plus_point(a, b) == (a + b) % Q
mul_by_scalar(p, s) == (p * s) % Q

\* hash-to-group: a deterministic map from messages to G_1; message 0 is
\* mapped to the identity
hash_to_group(m) == (2 * m) % Q

field_zero == -1
field_one == 0
mul_assign(p, x) ==
    IF p = field_zero \/ x = field_zero THEN field_zero ELSE (p + x) % Q

\* e(a*g1, b*g2) = e(g1, g2)^(a*b)
pair(a, b) == (a * b) % Q

-----------------------------------------------------------------------------
(* SecretKey, PublicKey, Signature *)

sign(sk, m) ==
    LET g1_hash == hash_to_group(m)
    IN  mul_by_scalar(g1_hash, sk)

\* a bug: the identity of G_2 taken for its generator
from_secret_zero_point(sk) == mul_by_scalar(zero_point, sk)

from_secret(sk) == mul_by_scalar(one_point, sk)

\* a bug: the second arguments of the two pairings exchanged
verify_swapped(pk, m, signature) ==
    LET g1_hash == hash_to_group(m)
        pair1 == pair(signature, pk)
        pair2 == pair(g1_hash, one_point)
    IN  pair1 = pair2

verify(pk, m, signature) ==
    LET g1_hash == hash_to_group(m)
        pair1 == pair(signature, one_point)
        pair2 == pair(g1_hash, pk)
    IN  pair1 = pair2

\* a bug: the signature added to itself
aggregate_self(self, to_aggregate) == plus_point(self, self)

aggregate(self, to_aggregate) == plus_point(self, to_aggregate)

\* get_sks_pks: the public keys matching a list of secret keys
get_pks(keys) == [i \in 1 .. Len(keys) |-> from_secret(keys[i])]

\* the aggregate_sigs! macro and the loop of the trusted-keys test: sign
\* messages[i] with keys[i] and aggregate the signatures from left to right
RECURSIVE aggregate_sigs(_, _)
aggregate_sigs(messages, keys) ==
    IF Len(keys) = 1
    THEN sign(keys[1], messages[1])
    ELSE LET k == Len(keys)
         IN  aggregate(aggregate_sigs(SubSeq(messages, 1, k - 1), SubSeq(keys, 1, k - 1)),
                       sign(keys[k], messages[k]))

\* every signature obtained by aggregating the signatures sigs[i], i \in I,
\* with Signature::aggregate in any order and any grouping
RECURSIVE aggregate_any(_, _)
aggregate_any(sigs, I) ==
    IF Cardinality(I) = 1
    THEN {sigs[CHOOSE i \in I : TRUE]}
    ELSE UNION {{aggregate(x, y) : x \in aggregate_any(sigs, A),
                                  y \in aggregate_any(sigs, I \ A)} :
                A \in (SUBSET I) \ {{}, I}}

-----------------------------------------------------------------------------
(* Duplicate detection *)

DIGEST_LEN == 64    \* struct Hash([u8; 64])
CMP_LEN == 63       \* Hash compares self.0[0..63]

\* Sha512 of a message: 64 bytes.  The digests of the model's messages
\* differ from one another in every byte.
Sha512 == [m \in Messages |-> [i \in 1 .. DIGEST_LEN |-> (16 * m + i) % 256]]

hash_message(m) == Sha512[m]

\* impl PartialEq for Hash
Hash_eq(self, other) == \A i \in 1 .. CMP_LEN : self[i] = other[i]

\* <[u8] as Ord>::cmp on the first 63 bytes: the lexicographic order, decided
\* at the first byte that differs; -1, 0, 1 for Less, Equal, Greater
slice_cmp(a, b) ==
    LET d == {j \in 1 .. CMP_LEN : a[j] # b[j]}
    IN  IF d = {} THEN 0
        ELSE LET k == CHOOSE j \in d : \A l \in d : j <= l
             IN  IF a[k] < b[k] THEN -1 ELSE 1

Hash_cmp(self, other) == slice_cmp(self, other)

\* Vec::sort under Hash_cmp (stable)
RECURSIVE insert_sorted(_, _)
insert_sorted(h, sorted) ==
    IF sorted = <<>> THEN <<h>>
    ELSE IF Hash_cmp(h, Head(sorted)) < 0 THEN <<h>> \o sorted
    ELSE <<Head(sorted)>> \o insert_sorted(h, Tail(sorted))

RECURSIVE sort(_)
sort(hashes) ==
    IF hashes = <<>> THEN <<>>
    ELSE LET k == Len(hashes)
         IN  insert_sorted(hashes[k], sort(SubSeq(hashes, 1, k - 1)))

\* a bug: neighbours compared without sorting first
has_duplicates_unsorted(messages) ==
    LET message_hashes == [i \in 1 .. Len(messages) |-> hash_message(messages[i])]
    IN  \E i \in 2 .. Len(message_hashes) :
            Hash_eq(message_hashes[i - 1], message_hashes[i])

has_duplicates(messages) ==
    LET message_hashes == sort([i \in 1 .. Len(messages) |-> hash_message(messages[i])])
    IN  \E i \in 2 .. Len(message_hashes) :
            Hash_eq(message_hashes[i - 1], message_hashes[i])

-----------------------------------------------------------------------------
(* par_iter().fold(..).reduce(..) *)

\* The lengths of the chunks a slice of n items may be cut into.  The slice
\* is halved at n \div 2; the first halving always happens when there are two
\* items or more (the splitter starts with one split per thread), a half is
\* halved again or folded by one worker, depending on the number of threads
\* and on work stealing.  An empty slice is one empty chunk.
RECURSIVE Chunkings(_, _)
Chunkings(n, root) ==
    IF n < 2 THEN {<<n>>}
    ELSE (IF root THEN {} ELSE {<<n>>}) \cup
         {l \o r : l \in Chunkings(n \div 2, FALSE),
                   r \in Chunkings(n - (n \div 2), FALSE)}

\* the chunks of items of the lengths lens
RECURSIVE split_chunks(_, _)
split_chunks(items, lens) ==
    IF lens = <<>> THEN <<>>
    ELSE <<SubSeq(items, 1, Head(lens))>> \o
         split_chunks(SubSeq(items, Head(lens) + 1, Len(items)), Tail(lens))

-----------------------------------------------------------------------------
(* verify_aggregate_sig *)

\* the fold closure |_sum, x| P::pair(hash_to_group(m), pk.0)
pairing_fold_op(sum, x) ==
    LET m == x[1]
        pk == x[2]
        g1_hash == hash_to_group(m)
    IN  pair(g1_hash, pk)

\* one worker folding its chunk, starting from acc
RECURSIVE fold_pairs(_, _)
fold_pairs(acc, chunk) ==
    IF chunk = <<>> THEN acc
    ELSE fold_pairs(pairing_fold_op(acc, Head(chunk)), Tail(chunk))

\* the reduce closure |prod, x| { p = prod; p.mul_assign(&x); p }
product_reduce_op(prod, x) == mul_assign(prod, x)

\* reduce of the folded chunks; every chunk's result is first combined with
\* the identity
RECURSIVE reduce_products(_, _)
reduce_products(acc, items) ==
    IF items = <<>> THEN acc
    ELSE reduce_products(product_reduce_op(acc, product_reduce_op(field_one, Head(items))),
                         Tail(items))

pairing_product(m_pk_pairs, chunks) ==
    LET parts == split_chunks(m_pk_pairs, chunks)
        folded == [c \in 1 .. Len(parts) |-> fold_pairs(field_zero, parts[c])]
    IN  reduce_products(field_one, folded)

\* The booleans the call may return: the product depends on the chunks the
\* parallel iterator cuts the batch into.
verify_aggregate_sig(m_pk_pairs, signature) ==
    IF has_duplicates([i \in 1 .. Len(m_pk_pairs) |-> m_pk_pairs[i][1]])
    THEN {FALSE}
    ELSE {pair(signature, one_point) = pairing_product(m_pk_pairs, chunks) :
             chunks \in Chunkings(Len(m_pk_pairs), TRUE)}

-----------------------------------------------------------------------------
(* verify_aggregate_sig_trusted_keys *)

\* the fold closure |_sum, x| x.0
key_fold_op(sum, x) == x

RECURSIVE fold_keys(_, _)
fold_keys(acc, chunk) ==
    IF chunk = <<>> THEN acc
    ELSE fold_keys(key_fold_op(acc, Head(chunk)), Tail(chunk))

\* the reduce closure |sum, x| sum.plus_point(&x)
key_reduce_op(sum, x) == plus_point(sum, x)

RECURSIVE reduce_keys(_, _)
reduce_keys(acc, items) ==
    IF items = <<>> THEN acc
    ELSE reduce_keys(key_reduce_op(acc, key_reduce_op(zero_point, Head(items))),
                     Tail(items))

\* the sum with the generator in place of the identity of G_2
key_sum_from_one_point(pks, chunks) ==
    LET parts == split_chunks(pks, chunks)
        folded == [c \in 1 .. Len(parts) |-> fold_keys(one_point, parts[c])]
    IN  reduce_keys(one_point, folded)

key_sum(pks, chunks) ==
    LET parts == split_chunks(pks, chunks)
        folded == [c \in 1 .. Len(parts) |-> fold_keys(zero_point, parts[c])]
    IN  reduce_keys(zero_point, folded)

\* The booleans the call may return: the sum depends on the chunks the
\* parallel iterator cuts the key list into.
verify_aggregate_sig_trusted_keys(m, pks, signature) ==
    {LET sum == key_sum(pks, chunks)
         pair1 == pair(signature, one_point)
         pair2 == pair(hash_to_group(m), sum)
     IN  pair1 = pair2 : chunks \in Chunkings(Len(pks), TRUE)}

-----------------------------------------------------------------------------
(* The calls.  A run fixes the inputs, obtains a signature, verifies it,     *)
(* and, when the verification accepted, changes one input and verifies      *)
(* again.                                                                   *)

NoTamper == [kind |-> "none", arg |-> 0]

\* the variables of the other components, while they are not in use
NoBls ==
    /\ ms = <<>> /\ sks = <<>> /\ sig = 0
    /\ pc = "idle" /\ op = "init" /\ res = FALSE /\ tamper = NoTamper
NoCall == [fn |-> "none", message |-> <<>>, r |-> 0]
NoResult == [ok |-> FALSE, val |-> <<>>, err |-> "no call"]
NoPs ==
    /\ ps_key = <<>> /\ ps_in = NoCall /\ ps_out = NoResult
    /\ rng = 0 /\ ps_log = <<>>
NoBytes ==
    /\ bkind = "none" /\ obj = "none" /\ bsrc = "none"
    /\ buf = <<>> /\ dec = NoResult
NoFfi == heap = <<>> /\ owned = <<>> /\ ret = <<>>
NoSvc ==
    /\ fs = <<>> /\ pending = <<>> /\ poisoned = FALSE
    /\ requests = <<>> /\ tasks = <<>> /\ reply = <<>> /\ reported = <<>>

SeqsUpTo(S, n) == UNION {[1 .. k -> S] : k \in 0 .. n}

\* one message and the keys of its signers
Init ==
    /\ ms \in [1 .. 1 -> Messages]
    /\ sks \in SeqsUpTo(Scalars, MaxSigners)
    /\ sig = zero_point
    /\ pc = "input"
    /\ op = "init"
    /\ res = FALSE
    /\ tamper = NoTamper
    /\ NoPs /\ NoBytes /\ NoFfi /\ NoSvc

\* a batch: one message per key
InitBatch ==
    /\ \E n \in 0 .. MaxSigners :
         /\ ms \in [1 .. n -> Messages]
         /\ sks \in [1 .. n -> BatchKeys]
    /\ sig = zero_point
    /\ pc = "input"
    /\ op = "init"
    /\ res = FALSE
    /\ tamper = NoTamper
    /\ NoPs /\ NoBytes /\ NoFfi /\ NoSvc

\* SecretKey::sign by the single signer
Sign ==
    /\ pc = "input"
    /\ Len(sks) = 1
    /\ sig' = sign(sks[1], ms[1])
    /\ pc' = "signed"
    /\ op' = "sign"
    /\ UNCHANGED <<ms, sks, res, tamper, extVars>>

\* every signer signs the one message; the signatures are aggregated in some
\* order and grouping
Aggregate ==
    /\ pc = "input"
    /\ Len(sks) >= 2
    /\ LET sigs == [i \in 1 .. Len(sks) |-> sign(sks[i], ms[1])]
       IN  \E s \in aggregate_any(sigs, 1 .. Len(sks)) : sig' = s
    /\ pc' = "signed"
    /\ op' = "aggregate"
    /\ UNCHANGED <<ms, sks, res, tamper, extVars>>

\* signer i signs ms[i]; the signatures are aggregated from left to right
AggregateSigs ==
    /\ pc = "input"
    /\ Len(sks) >= 1
    /\ sig' = aggregate_sigs(ms, sks)
    /\ pc' = "signed"
    /\ op' = "aggregate_sigs"
    /\ UNCHANGED <<ms, sks, res, tamper, extVars>>

\* the caller supplies any signature (Signature::from_bytes)
ReceiveSignature(s) ==
    /\ pc = "input"
    /\ sig' = s
    /\ pc' = "signed"
    /\ op' = "from_bytes"
    /\ UNCHANGED <<ms, sks, res, tamper, extVars>>

Verify ==
    /\ pc = "signed"
    /\ Len(sks) = 1
    /\ res' = verify(from_secret(sks[1]), ms[1], sig)
    /\ pc' = "verified"
    /\ op' = "verify"
    /\ UNCHANGED <<ms, sks, sig, tamper, extVars>>

VerifyAggregateSig ==
    /\ pc \in {"signed", "tampered"}
    /\ LET pks == get_pks(sks)
           m_pk_pairs == [i \in 1 .. Len(ms) |-> <<ms[i], pks[i]>>]
       IN  res' \in verify_aggregate_sig(m_pk_pairs, sig)
    /\ pc' = IF pc = "signed" THEN "verified" ELSE "reverified"
    /\ op' = "verify_aggregate_sig"
    /\ UNCHANGED <<ms, sks, sig, tamper, extVars>>

VerifyAggregateSigTrustedKeys ==
    /\ pc \in {"signed", "tampered"}
    /\ LET pks == get_pks(sks)
       IN  res' \in verify_aggregate_sig_trusted_keys(ms[1], pks, sig)
    /\ pc' = IF pc = "signed" THEN "verified" ELSE "reverified"
    /\ op' = "verify_aggregate_sig_trusted_keys"
    /\ UNCHANGED <<ms, sks, sig, tamper, extVars>>

\* after an accepted batch: another public key at position i
ReplaceKey(i, sk) ==
    /\ pc = "verified" /\ op = "verify_aggregate_sig" /\ res = TRUE
    /\ i \in 1 .. Len(sks)
    /\ sk # sks[i]
    /\ sks' = [sks EXCEPT ![i] = sk]
    /\ tamper' = [kind |-> "replace_key", arg |-> i]
    /\ pc' = "tampered"
    /\ UNCHANGED <<ms, sig, op, res, extVars>>

\* after an accepted trusted-keys verification: another message
ChangeMessage(m) ==
    /\ pc = "verified" /\ op = "verify_aggregate_sig_trusted_keys" /\ res = TRUE
    /\ m # ms[1]
    /\ ms' = <<m>>
    /\ tamper' = [kind |-> "message", arg |-> ms[1]]
    /\ pc' = "tampered"
    /\ UNCHANGED <<sks, sig, op, res, extVars>>

\* ... one more public key
AddKey(sk) ==
    /\ pc = "verified" /\ op = "verify_aggregate_sig_trusted_keys" /\ res = TRUE
    /\ Len(sks) < MaxSigners
    /\ sks' = Append(sks, sk)
    /\ tamper' = [kind |-> "add_key", arg |-> sk]
    /\ pc' = "tampered"
    /\ UNCHANGED <<ms, sig, op, res, extVars>>

\* ... the public key at position i removed
RemoveKey(i) ==
    /\ pc = "verified" /\ op = "verify_aggregate_sig_trusted_keys" /\ res = TRUE
    /\ i \in 1 .. Len(sks)
    /\ sks' = SubSeq(sks, 1, i - 1) \o SubSeq(sks, i + 1, Len(sks))
    /\ tamper' = [kind |-> "remove_key", arg |-> sks[i]]
    /\ pc' = "tampered"
    /\ UNCHANGED <<ms, sig, op, res, extVars>>

Next ==
    \/ Sign
    \/ Aggregate
    \/ \E s \in G_1 : ReceiveSignature(s)
    \/ Verify
    \/ VerifyAggregateSigTrustedKeys
    \/ \E m \in Messages : ChangeMessage(m)
    \/ \E sk \in Scalars : AddKey(sk)
    \/ \E i \in 1 .. MaxSigners : RemoveKey(i)

Spec == Init /\ [][Next]_vars

NextBatch ==
    \/ AggregateSigs
    \/ \E s \in G_1 : ReceiveSignature(s)
    \/ VerifyAggregateSig
    \/ \E i \in 1 .. MaxSigners, sk \in BatchKeys : ReplaceKey(i, sk)

SpecBatch == InitBatch /\ [][NextBatch]_vars

-----------------------------------------------------------------------------
(* Reference computations the claims compare the calls with *)

Distinct(messages) ==
    \A i, j \in 1 .. Len(messages) : i # j => messages[i] # messages[j]

SameMessage(n) == [i \in 1 .. n |-> ms[1]]

Batch == [i \in 1 .. Len(ms) |-> <<ms[i], from_secret(sks[i])>>]

\* the product of e(H(m_i), pk_i) over all pairs, one after the other
RECURSIVE SequentialProduct(_)
SequentialProduct(pairs) ==
    IF pairs = <<>> THEN field_one
    ELSE LET k == Len(pairs)
         IN  mul_assign(SequentialProduct(SubSeq(pairs, 1, k - 1)),
                        pair(hash_to_group(pairs[k][1]), pairs[k][2]))

\* the running sum of the public keys
RECURSIVE SequentialSum(_)
SequentialSum(pks) ==
    IF pks = <<>> THEN zero_point
    ELSE LET k == Len(pks)
         IN  plus_point(SequentialSum(SubSeq(pks, 1, k - 1)), pks[k])

VerifiedBy(o) == pc \in {"verified", "reverified"} /\ op = o

-----------------------------------------------------------------------------
(* Claims *)

\* C1: for every secret key sk and every message m,
\* verify(from_secret(sk), m, sign(sk, m)) returns true.
C1_SignThenVerify ==
    (VerifiedBy("verify") /\ sig = sign(sks[1], ms[1])) => res = TRUE

C1_Witness ==
    /\ VerifiedBy("verify")
    /\ sig = sign(sks[1], ms[1])
    /\ sig # zero_point
    /\ res = TRUE

\* C9: a signature made with sk1 on a message whose hash-to-group point is
\* not the identity does not verify under the public key of another secret
\* key sk2.
C9_OtherKeyRejected ==
    (/\ VerifiedBy("verify")
     /\ hash_to_group(ms[1]) # zero_point
     /\ \E sk1 \in Scalars : sk1 # sks[1] /\ sig = sign(sk1, ms[1]))
    => res = FALSE

C9_Witness ==
    /\ VerifiedBy("verify")
    /\ hash_to_group(ms[1]) # zero_point
    /\ sks[1] # 0
    /\ \E sk1 \in Scalars \ {0, sks[1]} : sig = sign(sk1, ms[1])
    /\ res = FALSE

\* C10: whatever the order and the grouping in which signatures are
\* aggregated, the result is the signature obtained by aggregating them from
\* left to right (Signature::aggregate is associative and commutative).
C10_AggregateAnyOrder ==
    (pc = "signed" /\ op = "aggregate")
    => sig = aggregate_sigs(SameMessage(Len(sks)), sks)

C10_Witness ==
    /\ pc = "signed" /\ op = "aggregate"
    /\ Len(sks) = 3
    /\ hash_to_group(ms[1]) # zero_point
    /\ sks[1] # sks[2] /\ sks[2] # sks[3] /\ sks[1] # sks[3]
    /\ sig = aggregate(sign(sks[3], ms[1]),
                       aggregate(sign(sks[1], ms[1]), sign(sks[2], ms[1])))
    /\ sig # zero_point

\* C2: verify_aggregate_sig returns false for every batch in which two
\* entries, at any two positions, carry the same message, whatever the public
\* keys and the signature.
C2_DuplicateRejected ==
    (/\ VerifiedBy("verify_aggregate_sig")
     /\ \E i, j \in 1 .. Len(ms) : i # j /\ ms[i] = ms[j])
    => res = FALSE

\* the duplicates are not neighbours and the signature is the aggregate of
\* the entries' signatures
C2_Witness ==
    /\ VerifiedBy("verify_aggregate_sig")
    /\ Len(ms) = 3
    /\ ms[1] = ms[3] /\ ms[1] # ms[2]
    /\ hash_to_group(ms[1]) # zero_point
    /\ sig = aggregate_sigs(ms, sks)
    /\ sig # zero_point
    /\ res = FALSE

\* C3: for a non-empty batch with pairwise distinct messages, the aggregate
\* of the signers' signatures verifies, however the batch is cut into chunks.
C3_AggregateVerifies ==
    (/\ pc = "verified" /\ op = "verify_aggregate_sig"
     /\ Len(sks) >= 1
     /\ Distinct(ms)
     /\ sig = aggregate_sigs(ms, sks))
    => res = TRUE

\* C4: verify_aggregate_sig accepts only when e(signature, g2) is the product
\* of e(H(m_i), pk_i) over all pairs; and once a batch with pairwise distinct
\* messages was accepted, another public key at one position makes it reject
\* (at a position whose message does not hash to the identity, where the two
\* products differ).
C4_AcceptsOnlyTheProduct ==
    /\ (VerifiedBy("verify_aggregate_sig") /\ res = TRUE)
       => pair(sig, one_point) = SequentialProduct(Batch)
    /\ (/\ pc = "reverified" /\ op = "verify_aggregate_sig"
        /\ tamper.kind = "replace_key"
        /\ Distinct(ms)
        /\ hash_to_group(ms[tamper.arg]) # zero_point)
       => res = FALSE

\* C5: for a non-empty batch the call returns the same boolean for every way
\* of cutting the batch into chunks, the boolean a sequential product gives.
C5_ChunkingIndependent ==
    (VerifiedBy("verify_aggregate_sig") /\ Len(sks) >= 1)
    => /\ verify_aggregate_sig(Batch, sig) = {res}
       /\ res = (/\ ~has_duplicates(ms)
                 /\ pair(sig, one_point) = SequentialProduct(Batch))

\* C6: the aggregate of the signatures of k >= 1 signers on one message
\* verifies against the list of their public keys.
C6_TrustedKeysVerifies ==
    (/\ pc = "verified" /\ op = "verify_aggregate_sig_trusted_keys"
     /\ Len(sks) >= 1
     /\ sig = aggregate_sigs(SameMessage(Len(sks)), sks))
    => res = TRUE

\* the change made after the accepted verification is one that changes
\* e(H(m), sum of the keys): the messages hash to different points and the
\* keys do not sum to the identity; the key added or removed is not the
\* identity and the message does not hash to the identity
TamperChangesPairing ==
    \/ /\ tamper.kind = "message"
       /\ hash_to_group(tamper.arg) # hash_to_group(ms[1])
       /\ SequentialSum(get_pks(sks)) # zero_point
    \/ /\ tamper.kind \in {"add_key", "remove_key"}
       /\ from_secret(tamper.arg) # zero_point
       /\ hash_to_group(ms[1]) # zero_point

\* C7: once verify_aggregate_sig_trusted_keys accepted, another message, one
\* more public key or one public key less makes it reject.
C7_TrustedKeysTamper ==
    (/\ pc = "reverified" /\ op = "verify_aggregate_sig_trusted_keys"
     /\ TamperChangesPairing)
    => res = FALSE

\* C8: the key the call aggregates is the G2 sum of all the public keys for
\* every way of cutting the key list into chunks, and the call returns what
\* a sequential running sum gives.
C8_KeySumIsTheSum ==
    VerifiedBy("verify_aggregate_sig_trusted_keys")
    => /\ \A chunks \in Chunkings(Len(sks), TRUE) :
              key_sum(get_pks(sks), chunks) = SequentialSum(get_pks(sks))
       /\ res = (pair(sig, one_point) =
                     pair(hash_to_group(ms[1]), SequentialSum(get_pks(sks))))

-----------------------------------------------------------------------------
(* Pointcheval-Sanders signatures: the secret key                          *)
(* (rust-src/ps_sig/src/secret.rs).  A key is the vector ys and the scalar *)
(* x; a known message is a vector of scalars, an unknown message a         *)
(* commitment in G_1; a signature is a pair of points of G_1.              *)

MaxAttrs == 2       \* largest capacity n of a key
NumPsVals == 2      \* number of different values of a y_i or an m_i
MaxCalls == 3       \* longest sequence of signing calls on one generator

PsVals == 1 .. NumPsVals

\* the scalar field
Fr_zero == 0
add_assign(a, b) == (a + b) % Q
Fr_mul_assign(a, b) == (a * b) % Q

Ok(v) == [ok |-> TRUE, val |-> v, err |-> "none"]
Err(e) == [ok |-> FALSE, val |-> <<>>, err |-> e]

SecretKey(vs, u) == [ys |-> vs, x |-> u]

\* C::generate_scalar(csprng): the generator hands out its next scalar r and
\* moves on; the state of the generator is the number of scalars drawn
generate_scalar(csprng, r) == [value |-> r, csprng |-> csprng + 1]

\* a.iter().zip(b.iter()): as long as the shorter of the two
zip(a, b) ==
    LET n == IF Len(a) < Len(b) THEN Len(a) ELSE Len(b)
    IN  [i \in 1 .. n |-> <<a[i], b[i]>>]

\* |mut acc, (m, y)| { let mut r = *m; r.mul_assign(y); acc.add_assign(&r); acc }
known_fold_op(acc, my) == add_assign(acc, Fr_mul_assign(my[1], my[2]))

RECURSIVE known_fold(_, _)
known_fold(acc, pairs) ==
    IF pairs = <<>> THEN acc
    ELSE known_fold(known_fold_op(acc, Head(pairs)), Tail(pairs))

sign_known_message_truncating(self, message, csprng, r) ==
    LET z == add_assign(known_fold(Fr_zero, zip(message, self.ys)), self.x)
        g == generate_scalar(csprng, r)
        h == mul_by_scalar(one_point, g.value)
    IN  [result |-> Ok(<<h, mul_by_scalar(h, z)>>),
         csprng |-> g.csprng,
         draws  |-> <<g.csprng>>]

sign_known_message_without_x(self, message, csprng, r) ==
    LET ys == self.ys
    IN  IF Len(message) > Len(ys)
        THEN [result |-> Err("SecretKeyLengthError"),
              csprng |-> csprng,
              draws  |-> <<>>]
        ELSE LET z == known_fold(Fr_zero, zip(message, ys))
                 g == generate_scalar(csprng, r)
                 h == mul_by_scalar(one_point, g.value)
             IN  [result |-> Ok(<<h, mul_by_scalar(h, z)>>),
                  csprng |-> g.csprng,
                  draws  |-> <<g.csprng>>]

\* the call returns its result, leaves the generator in state csprng, and
\* has made the draws listed (by their position in the generator's output)
sign_known_message(self, message, csprng, r) ==
    LET ys == self.ys
    IN  IF Len(message) > Len(ys)
        THEN [result |-> Err("SecretKeyLengthError"),
              csprng |-> csprng,
              draws  |-> <<>>]
        ELSE LET z == add_assign(known_fold(Fr_zero, zip(message, ys)), self.x)
                 g == generate_scalar(csprng, r)
                 h == mul_by_scalar(one_point, g.value)
             IN  [result |-> Ok(<<h, mul_by_scalar(h, z)>>),
                  csprng |-> g.csprng,
                  draws  |-> <<g.csprng>>]

sign_unknown_message_no_key(self, message, csprng, r) ==
    LET g == generate_scalar(csprng, r)
        a == mul_by_scalar(one_point, g.value)
        xmr == mul_by_scalar(message, g.value)
    IN  [result |-> Ok(<<a, xmr>>),
         csprng |-> g.csprng,
         draws  |-> <<g.csprng>>]

sign_unknown_message_copied_rng(self, message, csprng, r) ==
    LET sk == mul_by_scalar(one_point, self.x)
        g == generate_scalar(csprng, r)
        a == mul_by_scalar(one_point, g.value)
        xmr == mul_by_scalar(plus_point(sk, message), g.value)
    IN  [result |-> Ok(<<a, xmr>>),
         csprng |-> csprng,
         draws  |-> <<g.csprng>>]

sign_unknown_message_key_unblinded(self, message, csprng, r) ==
    LET sk == mul_by_scalar(one_point, self.x)
        g == generate_scalar(csprng, r)
        a == mul_by_scalar(one_point, g.value)
        xmr == plus_point(sk, mul_by_scalar(message, g.value))
    IN  [result |-> Ok(<<a, xmr>>),
         csprng |-> g.csprng,
         draws  |-> <<g.csprng>>]

sign_unknown_message(self, message, csprng, r) ==
    LET sk == mul_by_scalar(one_point, self.x)
        g == generate_scalar(csprng, r)
        a == mul_by_scalar(one_point, g.value)
        xmr == mul_by_scalar(plus_point(sk, message), g.value)
    IN  [result |-> Ok(<<a, xmr>>),
         csprng |-> g.csprng,
         draws  |-> <<g.csprng>>]

\* the keys SecretKey::generate(n, csprng) can return
PsKeys ==
    {SecretKey(vs, u) : vs \in SeqsUpTo(PsVals, MaxAttrs), u \in Scalars}

KnownMessages == SeqsUpTo(PsVals, MaxAttrs + 1)

\* a key, and the generator before its first draw
InitPS ==
    /\ ps_key \in PsKeys
    /\ ps_in = NoCall
    /\ ps_out = NoResult
    /\ rng = 0
    /\ ps_log = <<>>
    /\ NoBls /\ NoBytes /\ NoFfi /\ NoSvc

SignKnownMessage(message, r) ==
    /\ Len(ps_log) < MaxCalls
    /\ LET call == sign_known_message(ps_key, message, rng, r)
       IN  /\ ps_in' = [fn |-> "sign_known_message", message |-> message,
                        r |-> r]
           /\ ps_out' = call.result
           /\ rng' = call.csprng
           /\ ps_log' = IF call.result.ok
                        THEN Append(ps_log, call.draws) ELSE ps_log
    /\ UNCHANGED <<ps_key, blsVars, bytesVars, ffiVars, svcVars>>

SignUnknownMessage(message, r) ==
    /\ Len(ps_log) < MaxCalls
    /\ LET call == sign_unknown_message(ps_key, message, rng, r)
       IN  /\ ps_in' = [fn |-> "sign_unknown_message", message |-> message,
                        r |-> r]
           /\ ps_out' = call.result
           /\ rng' = call.csprng
           /\ ps_log' = IF call.result.ok
                        THEN Append(ps_log, call.draws) ELSE ps_log
    /\ UNCHANGED <<ps_key, blsVars, bytesVars, ffiVars, svcVars>>

\* one signing call, on any message
CallKnownMessage(message, r) ==
    /\ ps_in = NoCall
    /\ SignKnownMessage(message, r)

CallUnknownMessage(message, r) ==
    /\ ps_in = NoCall
    /\ SignUnknownMessage(message, r)

NextPS ==
    \/ \E message \in KnownMessages, r \in Scalars :
         CallKnownMessage(message, r)
    \/ \E message \in G_1, r \in Scalars : CallUnknownMessage(message, r)

SpecPS == InitPS /\ [][NextPS]_vars

\* a sequence of signing calls on one generator; the messages differ in
\* their length
LengthMessages == {[i \in 1 .. k |-> 1] : k \in 0 .. (MaxAttrs + 1)}

NextRng ==
    \/ \E message \in LengthMessages, r \in Scalars :
         SignKnownMessage(message, r)
    \/ \E r \in Scalars : SignUnknownMessage(one_point, r)

SpecRng == InitPS /\ [][NextRng]_vars

\* x + m_1 * y_1 + ... + m_k * y_k in the scalar field
RECURSIVE KnownExponent(_, _, _)
KnownExponent(key, message, k) ==
    IF k = 0 THEN key.x
    ELSE (KnownExponent(key, message, k - 1) + message[k] * key.ys[k]) % Q

KnownCall == ps_in.fn = "sign_known_message"
UnknownCall == ps_in.fn = "sign_unknown_message"

\* C11: sign_known_message with more messages than the key has y_i returns
\* the length error: no signature is returned and nothing is drawn
C11_TooLongRejected ==
    (KnownCall /\ Len(ps_in.message) > Len(ps_key.ys)) =>
        /\ ps_out = Err("SecretKeyLengthError")
        /\ ~ps_out.ok
        /\ ps_log = <<>>
        /\ rng = 0

C11_Witness ==
    /\ KnownCall
    /\ Len(ps_key.ys) >= 1
    /\ Len(ps_in.message) = Len(ps_key.ys) + 1
    /\ ~ps_out.ok

\* C12: sign_known_message with k <= n messages returns Ok((h, h^z)) with
\* h = g1^r for the scalar r drawn and z = x + the sum of m_i * y_i over the
\* first k of the y_i
C12_KnownSignature ==
    (KnownCall /\ Len(ps_in.message) <= Len(ps_key.ys)) =>
        LET h == (one_point * ps_in.r) % Q
            z == KnownExponent(ps_key, ps_in.message, Len(ps_in.message))
        IN  ps_out = Ok(<<h, (h * z) % Q>>)

C12_Witness ==
    /\ KnownCall
    /\ Len(ps_in.message) >= 1
    /\ Len(ps_in.message) < Len(ps_key.ys)
    /\ ps_in.r # 0
    /\ ps_key.x # 0
    /\ ps_out.ok
    /\ ps_out.val[2] # zero_point

\* C13: sign_unknown_message returns Ok((g1^r, (g1^x + c)^r)) for the scalar
\* r drawn, and never an error
C13_UnknownSignature ==
    UnknownCall =>
        LET r == ps_in.r
            c == ps_in.message
        IN  ps_out = Ok(<<(one_point * r) % Q,
                          (((one_point * ps_key.x) + c) * r) % Q>>)

C13_Witness ==
    /\ UnknownCall
    /\ ps_out.ok
    /\ ps_key.x # 0
    /\ ps_in.message # zero_point
    /\ ps_out.val[2] # zero_point

\* C14: every signing call that returns a signature makes exactly one draw
\* from the generator, and no two signatures returned on one generator are
\* built from the same draw
C14_FreshDraws ==
    /\ \A i \in 1 .. Len(ps_log) : Len(ps_log[i]) = 1
    /\ \A i, j \in 1 .. Len(ps_log) :
         i # j => ps_log[i][1] # ps_log[j][1]
    /\ rng = Len(ps_log)

C14_Witness ==
    /\ Len(ps_log) = MaxCalls
    /\ UnknownCall

-----------------------------------------------------------------------------
(* The byte encoding of scalars, and of the Pointcheval-Sanders secret key *)
(* (secret.rs, to_bytes and from_bytes).  A scalar is SCALAR_LENGTH bytes, *)
(* big-endian; the scalars of the model are below 256, so all bytes but    *)
(* the last are zero.  A block that encodes a number that is not below Q   *)
(* is not a scalar.                                                        *)

SCALAR_LENGTH == 32

MaxBlocks == 3      \* longest received input, in scalar blocks

scalar_to_bytes(s) ==
    [i \in 1 .. SCALAR_LENGTH |-> IF i = SCALAR_LENGTH THEN s % 256 ELSE 0]

bytes_to_scalar(bytes) ==
    IF Len(bytes) # SCALAR_LENGTH THEN Err("NotFieldElement")
    ELSE IF \E i \in 1 .. (SCALAR_LENGTH - 1) : bytes[i] # 0
         THEN Err("NotFieldElement")
    ELSE IF bytes[SCALAR_LENGTH] >= Q THEN Err("NotFieldElement")
    ELSE Ok(bytes[SCALAR_LENGTH])

value_to_bytes(scalar) == scalar_to_bytes(scalar)

RECURSIVE extend_values(_, _)
extend_values(bytes, vs) ==
    IF vs = <<>> THEN bytes
    ELSE extend_values(bytes \o value_to_bytes(Head(vs)), Tail(vs))

to_bytes_x_first(self) ==
    extend_values(<<>>, <<self.x>>) \o extend_values(<<>>, self.ys)

to_bytes(self) ==
    LET vs == self.ys
        u == self.x
    IN  extend_values(<<>>, vs) \o value_to_bytes(u)

\* for i in 0 .. vlen: decode the block at i, stop at the first that fails
RECURSIVE decode_values(_, _, _, _)
decode_values(bytes, i, vlen, vs) ==
    IF i >= vlen THEN Ok(vs)
    ELSE LET j == i * SCALAR_LENGTH
             k == j + SCALAR_LENGTH
             fr == bytes_to_scalar(SubSeq(bytes, j + 1, k))
         IN  IF ~fr.ok THEN Err("FieldDecodingError")
             ELSE decode_values(bytes, i + 1, vlen, Append(vs, fr.val))

from_bytes_any_length(bytes) ==
    LET l == Len(bytes)
    IN  IF l = 0 \/ l < SCALAR_LENGTH
        THEN Err("SecretKeyLengthError")
        ELSE LET vlen == (l \div SCALAR_LENGTH) - 1
                 vs == decode_values(bytes, 0, vlen, <<>>)
             IN  IF ~vs.ok THEN vs
                 ELSE LET fr == bytes_to_scalar(
                                    SubSeq(bytes, l - SCALAR_LENGTH + 1, l))
                      IN  IF ~fr.ok THEN Err("FieldDecodingError")
                          ELSE Ok(SecretKey(vs.val, fr.val))

from_bytes(bytes) ==
    LET l == Len(bytes)
    IN  IF l = 0 \/ l < SCALAR_LENGTH \/ l % SCALAR_LENGTH # 0
        THEN Err("SecretKeyLengthError")
        ELSE LET vlen == (l \div SCALAR_LENGTH) - 1
                 vs == decode_values(bytes, 0, vlen, <<>>)
             IN  IF ~vs.ok THEN vs
                 ELSE LET fr == bytes_to_scalar(
                                    SubSeq(bytes, l - SCALAR_LENGTH + 1, l))
                      IN  IF ~fr.ok THEN Err("FieldDecodingError")
                          ELSE Ok(SecretKey(vs.val, fr.val))

\* the inputs a caller can hand to from_bytes: blocks that encode a scalar,
\* blocks that encode the number Q, blocks with a high byte set, and at the
\* end a piece that is shorter than a block
NotCanonical == [i \in 1 .. SCALAR_LENGTH |-> IF i = SCALAR_LENGTH THEN Q ELSE 0]
HighByte == [i \in 1 .. SCALAR_LENGTH |-> IF i = 1 THEN 1 ELSE 0]
Blocks == {scalar_to_bytes(s) : s \in Scalars} \cup {NotCanonical, HighByte}
Tails == {<<>>, <<1>>, SubSeq(scalar_to_bytes(1), 2, SCALAR_LENGTH)}

RECURSIVE Flatten(_)
Flatten(blocks) ==
    IF blocks = <<>> THEN <<>> ELSE Head(blocks) \o Flatten(Tail(blocks))

ReceivedBytes ==
    {Flatten(bs) \o t : bs \in SeqsUpTo(Blocks, MaxBlocks), t \in Tails}

\* a key that is encoded and decoded again
AllPsKeys ==
    {SecretKey(vs, u) : vs \in SeqsUpTo(Scalars, MaxAttrs), u \in Scalars}

InitPsBytes ==
    /\ ps_key \in AllPsKeys
    /\ bkind = "ps_sk"
    /\ obj = "none"
    /\ bsrc = "none"
    /\ buf = <<>>
    /\ dec = NoResult
    /\ ps_in = NoCall /\ ps_out = NoResult /\ rng = 0 /\ ps_log = <<>>
    /\ NoBls /\ NoFfi /\ NoSvc

\* SecretKey::to_bytes of the key
PsToBytes ==
    /\ bsrc = "none"
    /\ buf' = to_bytes(ps_key)
    /\ bsrc' = "to_bytes"
    /\ UNCHANGED <<bkind, obj, dec, psVars, blsVars, ffiVars, svcVars>>

PsFromBytes ==
    /\ bsrc # "none"
    /\ dec = NoResult
    /\ dec' = from_bytes(buf)
    /\ UNCHANGED <<bkind, obj, bsrc, buf, psVars, blsVars, ffiVars, svcVars>>

NextPsBytes ==
    \/ PsToBytes
    \/ PsFromBytes

SpecPsBytes == InitPsBytes /\ [][NextPsBytes]_vars

\* bytes that come from the caller
InitPsDecode ==
    /\ bkind = "ps_sk"
    /\ obj = "none"
    /\ bsrc = "none"
    /\ buf = <<>>
    /\ dec = NoResult
    /\ NoPs /\ NoBls /\ NoFfi /\ NoSvc

PsReceiveBytes(bytes) ==
    /\ bsrc = "none"
    /\ buf' = bytes
    /\ bsrc' = "received"
    /\ UNCHANGED <<bkind, obj, dec, psVars, blsVars, ffiVars, svcVars>>

NextPsDecode ==
    \/ \E bytes \in ReceivedBytes : PsReceiveBytes(bytes)
    \/ PsFromBytes

SpecPsDecode == InitPsDecode /\ [][NextPsDecode]_vars

Decoded == dec # NoResult

\* the i-th block of the input, and the scalar it encodes
Block(i) == SubSeq(buf, (i - 1) * SCALAR_LENGTH + 1, i * SCALAR_LENGTH)
IsScalar(b) == \E s \in Scalars : b = scalar_to_bytes(s)
ScalarOf(b) == CHOOSE s \in Scalars : b = scalar_to_bytes(s)
NumBlocks == Len(buf) \div SCALAR_LENGTH
WholeBlocks == Len(buf) # 0 /\ Len(buf) % SCALAR_LENGTH = 0

\* C17: from_bytes(to_bytes(sk)) = Ok(sk) for a key of any capacity: the
\* same y vector in the same order and the same x
C17_PsRoundTrip ==
    (bsrc = "to_bytes" /\ Decoded) =>
        /\ dec.ok
        /\ dec.val.ys = ps_key.ys
        /\ dec.val.x = ps_key.x

C17_Witness ==
    /\ bsrc = "to_bytes" /\ Decoded
    /\ Len(ps_key.ys) = 2
    /\ ps_key.ys[1] # ps_key.ys[2]
    /\ ps_key.x # ps_key.ys[1]
    /\ ps_key.x # ps_key.ys[2]
    /\ dec = Ok(ps_key)

\* C18: from_bytes returns the key-length error exactly when the input is
\* empty or not a whole number of scalar blocks; k >= 1 blocks that are all
\* scalars give the key whose ys are the first k-1 blocks in order and whose
\* x is the last; a block that is not a scalar gives the field-decoding error
C18_PsFromBytes ==
    Decoded =>
        /\ (dec = Err("SecretKeyLengthError")) <=> ~WholeBlocks
        /\ (WholeBlocks /\ \A i \in 1 .. NumBlocks : IsScalar(Block(i))) =>
               /\ dec.ok
               /\ dec.val.ys = [i \in 1 .. (NumBlocks - 1) |-> ScalarOf(Block(i))]
               /\ dec.val.x = ScalarOf(Block(NumBlocks))
        /\ (WholeBlocks /\ \E i \in 1 .. NumBlocks : ~IsScalar(Block(i))) =>
               dec = Err("FieldDecodingError")

C18_Witness ==
    /\ bsrc = "received" /\ Decoded
    /\ Len(buf) > 2 * SCALAR_LENGTH
    /\ Len(buf) % SCALAR_LENGTH # 0
    /\ dec = Err("SecretKeyLengthError")

-----------------------------------------------------------------------------
(* The byte encodings of the BLS secret key, public key and signature      *)
(* (aggregate_sig.rs, from_bytes and to_bytes).  from_bytes reads from a   *)
(* std::io::Cursor over the caller's bytes: a read takes the next bytes    *)
(* and moves the position, and fails when fewer bytes than asked for are   *)
(* left.  A point is encoded in GROUP_ELEMENT_LENGTH bytes: a flag byte    *)
(* (compressed, and infinity for the identity), zeros, and in the last     *)
(* byte the logarithm that stands for the point.                           *)

PUBLIC_KEY_SIZE == 96
SECRET_KEY_SIZE == 32
SIGNATURE_SIZE == 48

G1_ELEMENT_LENGTH == 48
G2_ELEMENT_LENGTH == 96
COMPRESSED == 128
INFINITY == 64

MaxExtra == 2       \* most bytes an input is too short or too long by

Cursor(bytes) == [data |-> bytes, pos |-> 0]

\* Read::read_exact: the next n bytes, or an error and nothing consumed
read_exact(b, n) ==
    IF Len(b.data) - b.pos < n
    THEN [result |-> Err("UnexpectedEof"), cursor |-> b]
    ELSE [result |-> Ok(SubSeq(b.data, b.pos + 1, b.pos + n)),
          cursor |-> [b EXCEPT !.pos = b.pos + n]]

\* Pairing::bytes_to_scalar on a cursor
read_scalar(b) ==
    LET rd == read_exact(b, SCALAR_LENGTH)
    IN  IF ~rd.result.ok THEN Err("NotFieldElement")
        ELSE bytes_to_scalar(rd.result.val)

curve_to_bytes(point, n) ==
    [i \in 1 .. n |->
        IF i = 1 THEN (IF point = zero_point THEN COMPRESSED + INFINITY
                       ELSE COMPRESSED)
        ELSE IF i = n THEN point
        ELSE 0]

\* Curve::bytes_to_curve on a cursor
bytes_to_curve(b, n) ==
    LET rd == read_exact(b, n)
    IN  IF ~rd.result.ok THEN Err("NotOnCurve")
        ELSE LET bytes == rd.result.val
             IN  IF \E i \in 2 .. (n - 1) : bytes[i] # 0
                 THEN Err("NotOnCurve")
                 ELSE IF bytes[1] = COMPRESSED + INFINITY /\ bytes[n] = 0
                 THEN Ok(zero_point)
                 ELSE IF bytes[1] = COMPRESSED /\ bytes[n] \in 1 .. (Q - 1)
                 THEN Ok(bytes[n])
                 ELSE Err("NotOnCurve")

\* let s = P::bytes_to_scalar(b)?; Ok(SecretKey(s))
sk_from_bytes_first_byte(b) ==
    LET rd == read_exact(b, 1)
    IN  IF ~rd.result.ok THEN Err("DecodingError")
        ELSE Ok(rd.result.val[1] % Q)

sk_from_bytes(b) ==
    LET s == read_scalar(b)
    IN  IF ~s.ok THEN Err("DecodingError") ELSE Ok(s.val)

sk_to_bytes(self) == scalar_to_bytes(self)

pk_from_bytes(b) ==
    LET point == bytes_to_curve(b, G2_ELEMENT_LENGTH)
    IN  IF ~point.ok THEN Err("DecodingError") ELSE Ok(point.val)

pk_to_bytes(self) == curve_to_bytes(self, G2_ELEMENT_LENGTH)

sig_from_bytes(b) ==
    LET point == bytes_to_curve(b, G1_ELEMENT_LENGTH)
    IN  IF ~point.ok THEN Err("DecodingError") ELSE Ok(point.val)

sig_to_bytes(self) == curve_to_bytes(self, G1_ELEMENT_LENGTH)

Kinds == {"sk", "pk", "sig"}

bls_from_bytes(kind, bytes) ==
    CASE kind = "sk" -> sk_from_bytes(Cursor(bytes))
      [] kind = "pk" -> pk_from_bytes(Cursor(bytes))
      [] kind = "sig" -> sig_from_bytes(Cursor(bytes))

bls_to_bytes(kind, v) ==
    CASE kind = "sk" -> sk_to_bytes(v)
      [] kind = "pk" -> pk_to_bytes(v)
      [] kind = "sig" -> sig_to_bytes(v)

\* a secret key, a message and a signature; the three values are encoded,
\* decoded, and the decoded signature is verified
InitBlsBytes ==
    /\ ms \in [1 .. 1 -> Messages]
    /\ sks \in [1 .. 1 -> Scalars]
    /\ sig \in G_1
    /\ pc = "input"
    /\ op = "init"
    /\ res = FALSE
    /\ tamper = NoTamper
    /\ bkind = "all"
    /\ obj = "none"
    /\ bsrc = "none"
    /\ buf = <<>>
    /\ dec = NoResult
    /\ NoPs /\ NoFfi /\ NoSvc

BlsToBytes ==
    /\ bsrc = "none"
    /\ buf' = [sk  |-> sk_to_bytes(sks[1]),
               pk  |-> pk_to_bytes(from_secret(sks[1])),
               sig |-> sig_to_bytes(sig)]
    /\ bsrc' = "to_bytes"
    /\ UNCHANGED <<bkind, obj, dec, blsVars, psVars, ffiVars, svcVars>>

BlsFromBytes ==
    /\ bsrc = "to_bytes"
    /\ pc = "input"
    /\ dec' = [sk  |-> sk_from_bytes(Cursor(buf.sk)),
               pk  |-> pk_from_bytes(Cursor(buf.pk)),
               sig |-> sig_from_bytes(Cursor(buf.sig))]
    /\ pc' = "decoded"
    /\ UNCHANGED <<ms, sks, sig, op, res, tamper>>
    /\ UNCHANGED <<bkind, obj, bsrc, buf, psVars, ffiVars, svcVars>>

\* pk.verify(&m, sig_from_bytes) and pk_from_bytes.verify(&m, sig_from_bytes)
VerifyDecoded(which) ==
    /\ pc = "decoded"
    /\ dec.pk.ok /\ dec.sig.ok
    /\ LET pk == IF which = "pk" THEN from_secret(sks[1]) ELSE dec.pk.val
       IN  res' = verify(pk, ms[1], dec.sig.val)
    /\ pc' = "verified"
    /\ op' = which
    /\ UNCHANGED <<ms, sks, sig, tamper, bytesVars, psVars, ffiVars, svcVars>>

NextBlsBytes ==
    \/ BlsToBytes
    \/ BlsFromBytes
    \/ \E which \in {"pk", "pk_from_bytes"} : VerifyDecoded(which)

SpecBlsBytes == InitBlsBytes /\ [][NextBlsBytes]_vars

\* C15: from_bytes(to_bytes(x)) succeeds and returns x for a secret key, a
\* public key and a signature, and the decoded signature verifies under the
\* original and under the decoded public key whenever the original does
C15_BlsRoundTrip ==
    /\ pc \in {"decoded", "verified"} =>
          /\ dec.sk = Ok(sks[1])
          /\ dec.pk = Ok(from_secret(sks[1]))
          /\ dec.sig = Ok(sig)
    /\ pc = "verified" =>
          res = verify(from_secret(sks[1]), ms[1], sig)

C15_Witness ==
    /\ pc = "verified"
    /\ op = "pk_from_bytes"
    /\ sks[1] # 0
    /\ sig = sign(sks[1], ms[1])
    /\ sig # zero_point
    /\ res = TRUE

\* bytes that come from the caller: an encoding of the type, cut short or
\* extended by up to MaxExtra bytes, or with a last byte that encodes no value
FixedLength(kind) ==
    CASE kind = "sk" -> SECRET_KEY_SIZE
      [] kind = "pk" -> PUBLIC_KEY_SIZE
      [] kind = "sig" -> SIGNATURE_SIZE

Padding(d) == [i \in 1 .. d |-> 0]

BlsReceivedBytes(kind) ==
    LET encodings == {bls_to_bytes(kind, v) : v \in 0 .. (Q - 1)}
        n == FixedLength(kind)
    IN  encodings
          \cup {<<>>}
          \cup {SubSeq(e, 1, n - d) : e \in encodings, d \in 1 .. MaxExtra}
          \cup {e \o Padding(d) : e \in encodings, d \in 1 .. MaxExtra}
          \cup {[e EXCEPT ![n] = Q] : e \in encodings}

InitBlsDecode ==
    /\ bkind \in Kinds
    /\ obj = "none"
    /\ bsrc = "none"
    /\ buf = <<>>
    /\ dec = NoResult
    /\ NoBls /\ NoPs /\ NoFfi /\ NoSvc

BlsReceiveBytes(bytes) ==
    /\ bsrc = "none"
    /\ buf' = bytes
    /\ bsrc' = "received"
    /\ UNCHANGED <<bkind, obj, dec, blsVars, psVars, ffiVars, svcVars>>

BlsDecode ==
    /\ bsrc = "received"
    /\ dec = NoResult
    /\ dec' = bls_from_bytes(bkind, buf)
    /\ UNCHANGED <<bkind, obj, bsrc, buf, blsVars, psVars, ffiVars, svcVars>>

NextBlsDecode ==
    \/ \E bytes \in BlsReceivedBytes(bkind) : BlsReceiveBytes(bytes)
    \/ BlsDecode

SpecBlsDecode == InitBlsDecode /\ [][NextBlsDecode]_vars

\* C16: from_bytes of a secret key, public key or signature returns a
\* decoding error for every input whose length is not the type's fixed
\* length (32, 96, 48), too short or too long
C16_WrongLengthRejected ==
    (bsrc = "received" /\ Decoded /\ Len(buf) # FixedLength(bkind)) =>
        /\ ~dec.ok
        /\ dec = Err("DecodingError")

-----------------------------------------------------------------------------
(* The foreign call boundary (rust-src/aggregate_sig/src/ffi.rs).  A       *)
(* handle is the address of a Box; the heap maps every address to the      *)
(* value behind it, or to FreeCell when the address is not allocated.      *)

MaxAddrs == 3       \* number of addresses the allocator has

Addrs == 1 .. MaxAddrs
NULL == 0

FreeCell == [live |-> FALSE, kind |-> "none", val |-> 0]
Cell(kind, v) == [live |-> TRUE, kind |-> kind, val |-> v]

NoRet == [fn |-> "none", args |-> <<>>, ptr |-> NULL, val |-> 0, fault |-> "none"]

\* from_ptr!(ptr): a reference to the value behind the handle
from_ptr(h, ptr) == h[ptr].val

\* <[u8] as Ord>::cmp: the lexicographic order, decided at the first byte
\* that differs, a proper prefix being less; -1, 0, 1 for Less, Equal, Greater
bytes_cmp(a, b) ==
    LET n == IF Len(a) < Len(b) THEN Len(a) ELSE Len(b)
        d == {j \in 1 .. n : a[j] # b[j]}
    IN  IF d = {}
        THEN (IF Len(a) < Len(b) THEN -1 ELSE IF Len(a) > Len(b) THEN 1 ELSE 0)
        ELSE LET k == CHOOSE j \in d : \A l \in d : j <= l
             IN  IF a[k] < b[k] THEN -1 ELSE 1

\* to_bytes() of every value of a type
CanonicalEncoding ==
    [kind \in Kinds |-> [v \in 0 .. (Q - 1) |-> bls_to_bytes(kind, v)]]

\* p1.to_bytes().cmp(&p2.to_bytes()) for every two values of a type
to_bytes_cmp ==
    [kind \in Kinds |->
        [p \in (0 .. (Q - 1)) \X (0 .. (Q - 1)) |->
            bytes_cmp(bls_to_bytes(kind, p[1]), bls_to_bytes(kind, p[2]))]]

macro_cmp_no_equal(kind, h, ptr1, ptr2) ==
    IF ptr1 = ptr2 THEN 0
    ELSE LET p1 == from_ptr(h, ptr1)
             p2 == from_ptr(h, ptr2)
             ordering == to_bytes_cmp[kind][<<p1, p2>>]
         IN  IF ordering = -1 THEN -1 ELSE 1

\* bls_pk_cmp, bls_sk_cmp, bls_sig_cmp
macro_cmp(kind, h, ptr1, ptr2) ==
    IF ptr1 = ptr2 THEN 0
    ELSE LET p1 == from_ptr(h, ptr1)
             p2 == from_ptr(h, ptr2)
             ordering == to_bytes_cmp[kind][<<p1, p2>>]
         IN  CASE ordering = -1 -> -1
               [] ordering = 1 -> 1
               [] ordering = 0 -> 0

Live(h) == {a \in DOMAIN h : h[a].live}

\* three handles to values of one type, as the constructing entry points
\* return them, and calls that compare two of them
InitCmp ==
    /\ \E kind \in Kinds :
         \E vs \in [1 .. 3 -> 0 .. (Q - 1)] :
            /\ heap = [a \in Addrs |->
                         IF a <= 3 THEN Cell(kind, vs[a]) ELSE FreeCell]
            /\ owned = [a \in Addrs |-> IF a <= 3 THEN <<kind>> ELSE <<>>]
    /\ ret = NoRet
    /\ NoBls /\ NoPs /\ NoBytes /\ NoSvc

Cmp(ptr1, ptr2) ==
    /\ heap[ptr1].live /\ heap[ptr2].live
    /\ heap[ptr1].kind = heap[ptr2].kind
    /\ ret' = [fn   |-> "bls_cmp",
               args |-> <<ptr1, ptr2>>,
               ptr  |-> NULL,
               val  |-> macro_cmp(heap[ptr1].kind, heap, ptr1, ptr2),
               fault |-> "none"]
    /\ UNCHANGED <<heap, owned, blsVars, psVars, bytesVars, svcVars>>

NextCmp == \E ptr1, ptr2 \in Addrs : Cmp(ptr1, ptr2)

SpecCmp == InitCmp /\ [][NextCmp]_vars

\* the canonical encoding of the value behind a handle
Encoding(a) == CanonicalEncoding[heap[a].kind][heap[a].val]

\* x is before y in the byte-lexicographic order
LexLess(x, y) ==
    \/ Len(x) < Len(y) /\ x = SubSeq(y, 1, Len(x))
    \/ \E i \in 1 .. Len(x) :
         /\ i <= Len(y)
         /\ SubSeq(x, 1, i - 1) = SubSeq(y, 1, i - 1)
         /\ x[i] < y[i]

\* LexLess for the encodings of every two values of a type
EncodedBefore ==
    [kind \in Kinds |->
        [p \in (0 .. (Q - 1)) \X (0 .. (Q - 1)) |->
            LexLess(CanonicalEncoding[kind][p[1]], CanonicalEncoding[kind][p[2]])]]

Before(a, b) == EncodedBefore[heap[a].kind][<<heap[a].val, heap[b].val>>]

CmpOf(a, b) == macro_cmp(heap[a].kind, heap, a, b)

\* C19: the comparison returns -1, 0 or 1 by the byte-lexicographic order of
\* the two encodings; it returns 0 exactly when the handles are the same or
\* the values encode equally, cmp(a, b) = -cmp(b, a), and it is transitive
C19_CmpTotalOrder ==
    /\ ret.fn = "bls_cmp" =>
          LET a == ret.args[1]
              b == ret.args[2]
          IN  /\ ret.val \in {-1, 0, 1}
              /\ ret.val = -1 <=> Before(a, b)
              /\ ret.val = 1 <=> Before(b, a)
              /\ ret.val = 0 <=> (a = b \/ Encoding(a) = Encoding(b))
    /\ \A a, b \in Live(heap) :
          /\ CmpOf(a, b) = 0 <=> (a = b \/ Encoding(a) = Encoding(b))
          /\ CmpOf(a, b) = -CmpOf(b, a)
    /\ \A a, b, c \in Live(heap) :
          (CmpOf(a, b) <= 0 /\ CmpOf(b, c) <= 0) => CmpOf(a, c) <= 0

C19_Witness ==
    /\ ret.fn = "bls_cmp"
    /\ ret.val = 1
    /\ heap[1].kind = "sig"
    /\ \A a, b \in Live(heap) : a # b => heap[a].val # heap[b].val
    /\ \E a \in Live(heap) : heap[a].val = zero_point

-----------------------------------------------------------------------------
(* The entry points that construct, read and release handles.  Box::new    *)
(* takes an address a that is not allocated; which one is the allocator's  *)
(* choice.  An entry point returns the heap it leaves and its result.      *)

\* Box::into_raw(Box::new(v))
Box_into_raw(h, a, kind, v) ==
    [heap |-> [h EXCEPT ![a] = Cell(kind, v)], ptr |-> a]

\* StdRng seeded with the seed, then SecretKey::generate
seeded_key(seed) == seed % Q

Signature_empty == zero_point

bls_generate_secretkey(h, a, sk) == Box_into_raw(h, a, "sk", sk)

bls_generate_secretkey_from_seed(h, a, seed) ==
    Box_into_raw(h, a, "sk", seeded_key(seed))

bls_derive_publickey(h, a, sk_ptr) ==
    LET sk == from_ptr(h, sk_ptr)
    IN  Box_into_raw(h, a, "pk", from_secret(sk))

\* bls_sk_from_bytes, bls_pk_from_bytes, bls_sig_from_bytes: the null handle
\* when the bytes do not decode
macro_derive_from_bytes(h, a, kind, bytes) ==
    LET e == bls_from_bytes(kind, bytes)
    IN  IF e.ok THEN Box_into_raw(h, a, kind, e.val)
        ELSE [heap |-> h, ptr |-> NULL]

bls_sign(h, a, m, sk_ptr) ==
    LET sk == from_ptr(h, sk_ptr)
    IN  Box_into_raw(h, a, "sig", sign(sk, m))

bls_aggregate_in_place(h, a, sig1_ptr, sig2_ptr) ==
    LET sig1 == from_ptr(h, sig1_ptr)
        sig2 == from_ptr(h, sig2_ptr)
    IN  Box_into_raw(h, sig1_ptr, "sig", aggregate(sig1, sig2))

bls_aggregate(h, a, sig1_ptr, sig2_ptr) ==
    LET sig1 == from_ptr(h, sig1_ptr)
        sig2 == from_ptr(h, sig2_ptr)
    IN  Box_into_raw(h, a, "sig", aggregate(sig1, sig2))

bls_empty_sig(h, a) == Box_into_raw(h, a, "sig", Signature_empty)

bls_verify(h, m, pk_ptr, sig_ptr) ==
    LET pk == from_ptr(h, pk_ptr)
        signature == from_ptr(h, sig_ptr)
    IN  verify(pk, m, signature)

\* the results the call can return (one per way of chunking the keys)
bls_verify_aggregate(h, m, pks_, sig_ptr) ==
    LET pks == [i \in 1 .. Len(pks_) |-> from_ptr(h, pks_[i])]
        signature == from_ptr(h, sig_ptr)
    IN  verify_aggregate_sig_trusted_keys(m, pks, signature)

\* bls_sk_eq, bls_pk_eq, bls_sig_eq
macro_derive_binary(h, ptr1, ptr2) == from_ptr(h, ptr1) = from_ptr(h, ptr2)

\* bls_sk_to_bytes, bls_pk_to_bytes, bls_sig_to_bytes
macro_derive_to_bytes(h, kind, ptr) == CanonicalEncoding[kind][from_ptr(h, ptr)]

\* bls_free_sk, bls_free_pk, bls_free_sig
macro_free_ffi(h, ptr) ==
    IF ptr = NULL THEN h ELSE [h EXCEPT ![ptr] = FreeCell]

\* The foreign caller.  It keeps every handle it was returned, with the type
\* it was returned as, passes only handles it keeps, and frees each once.
Handles(kind) ==
    {p \in Addrs : \E i \in 1 .. Len(owned[p]) : owned[p][i] = kind}

Unallocated == Addrs \ Live(heap)

Deref(ptrs) ==
    IF \E p \in ptrs : ~heap[p].live THEN "use after release" ELSE "none"

\* a constructing entry point, called with the handles in args, has
\* returned out.ptr, of the given type
Returned(fn, args, kind, out) ==
    /\ heap' = out.heap
    /\ owned' = IF out.ptr = NULL THEN owned
                ELSE [owned EXCEPT ![out.ptr] = Append(@, kind)]
    /\ ret' = [fn |-> fn, args |-> <<>>, ptr |-> out.ptr, val |-> 0,
               fault |-> Deref(args)]
    /\ UNCHANGED <<blsVars, psVars, bytesVars, svcVars>>

\* a reading entry point, called with the handles in args, has returned a
\* value of its result type; the caller does not keep it
Read(fn, args, returns) ==
    /\ returns
    /\ ret' = [fn |-> fn, args |-> <<>>, ptr |-> NULL, val |-> 0,
               fault |-> Deref(args)]
    /\ UNCHANGED <<heap, owned, blsVars, psVars, bytesVars, svcVars>>

InitFfi ==
    /\ heap = [a \in Addrs |-> FreeCell]
    /\ owned = [a \in Addrs |-> <<>>]
    /\ ret = NoRet
    /\ NoBls /\ NoPs /\ NoBytes /\ NoSvc

GenerateSecretKey(a, sk) ==
    /\ a \in Unallocated
    /\ Returned("bls_generate_secretkey", {}, "sk",
                bls_generate_secretkey(heap, a, sk))

GenerateSecretKeyFromSeed(a, seed) ==
    /\ a \in Unallocated
    /\ Returned("bls_generate_secretkey_from_seed", {}, "sk",
                bls_generate_secretkey_from_seed(heap, a, seed))

DerivePublicKey(a, sk_ptr) ==
    /\ a \in Unallocated
    /\ sk_ptr \in Handles("sk")
    /\ Returned("bls_derive_publickey", {sk_ptr}, "pk",
                bls_derive_publickey(heap, a, sk_ptr))

FromBytes(a, kind, bytes) ==
    /\ a \in Unallocated
    /\ Returned("bls_from_bytes", {}, kind,
                macro_derive_from_bytes(heap, a, kind, bytes))

FfiSign(a, m, sk_ptr) ==
    /\ a \in Unallocated
    /\ sk_ptr \in Handles("sk")
    /\ Returned("bls_sign", {sk_ptr}, "sig", bls_sign(heap, a, m, sk_ptr))

FfiAggregate(a, sig1_ptr, sig2_ptr) ==
    /\ a \in Unallocated
    /\ sig1_ptr \in Handles("sig")
    /\ sig2_ptr \in Handles("sig")
    /\ Returned("bls_aggregate", {sig1_ptr, sig2_ptr}, "sig",
                bls_aggregate(heap, a, sig1_ptr, sig2_ptr))

EmptySig(a) ==
    /\ a \in Unallocated
    /\ Returned("bls_empty_sig", {}, "sig", bls_empty_sig(heap, a))

FfiVerify(m, pk_ptr, sig_ptr) ==
    /\ pk_ptr \in Handles("pk")
    /\ sig_ptr \in Handles("sig")
    /\ Read("bls_verify", {pk_ptr, sig_ptr},
            bls_verify(heap, m, pk_ptr, sig_ptr) \in BOOLEAN)

FfiVerifyAggregate(m, pks_, sig_ptr) ==
    /\ \A i \in 1 .. Len(pks_) : pks_[i] \in Handles("pk")
    /\ sig_ptr \in Handles("sig")
    /\ \E v \in bls_verify_aggregate(heap, m, pks_, sig_ptr) :
         Read("bls_verify_aggregate",
              {pks_[i] : i \in 1 .. Len(pks_)} \cup {sig_ptr}, v \in BOOLEAN)

FfiCmp(kind, ptr1, ptr2) ==
    /\ ptr1 \in Handles(kind)
    /\ ptr2 \in Handles(kind)
    /\ Read("bls_cmp", {ptr1, ptr2},
            macro_cmp(kind, heap, ptr1, ptr2) \in {-1, 0, 1})

FfiEq(kind, ptr1, ptr2) ==
    /\ ptr1 \in Handles(kind)
    /\ ptr2 \in Handles(kind)
    /\ Read("bls_eq", {ptr1, ptr2},
            macro_derive_binary(heap, ptr1, ptr2) \in BOOLEAN)

FfiToBytes(kind, ptr) ==
    /\ ptr \in Handles(kind)
    /\ Read("bls_to_bytes", {ptr},
            Len(macro_derive_to_bytes(heap, kind, ptr)) = FixedLength(kind))

\* the caller gives up one of the handles it keeps
Free(ptr) ==
    /\ ptr \in Addrs
    /\ owned[ptr] # <<>>
    /\ heap' = macro_free_ffi(heap, ptr)
    /\ owned' = [owned EXCEPT ![ptr] = Tail(@)]
    /\ ret' = [fn |-> "bls_free", args |-> <<ptr>>, ptr |-> NULL, val |-> 0,
               fault |-> IF heap[ptr].live THEN "none" ELSE "double free"]
    /\ UNCHANGED <<blsVars, psVars, bytesVars, svcVars>>

\* the secret keys, seeds and messages of the caller, and the bytes it
\* decodes: encodings, and bytes that encode nothing
FfiKeys == {1}
FfiMessages == {1}
FfiBytes(kind) == {bls_to_bytes(kind, v) : v \in FfiKeys} \cup {<<>>}

NextFfi ==
    \/ \E a \in Unallocated, sk \in FfiKeys : GenerateSecretKey(a, sk)
    \/ \E a \in Unallocated, seed \in FfiKeys :
         GenerateSecretKeyFromSeed(a, seed)
    \/ \E a \in Unallocated, sk_ptr \in Handles("sk") :
         DerivePublicKey(a, sk_ptr)
    \/ \E a \in Unallocated, kind \in Kinds :
         \E bytes \in FfiBytes(kind) : FromBytes(a, kind, bytes)
    \/ \E a \in Unallocated, sk_ptr \in Handles("sk"), m \in FfiMessages :
         FfiSign(a, m, sk_ptr)
    \/ \E a \in Unallocated, sig1_ptr, sig2_ptr \in Handles("sig") :
         FfiAggregate(a, sig1_ptr, sig2_ptr)
    \/ \E a \in Unallocated : EmptySig(a)
    \/ \E m \in FfiMessages, pk_ptr \in Handles("pk"), sig_ptr \in Handles("sig") :
         FfiVerify(m, pk_ptr, sig_ptr)
    \/ \E m \in FfiMessages, sig_ptr \in Handles("sig") :
         \E pks_ \in SeqsUpTo(Handles("pk"), 2) :
            FfiVerifyAggregate(m, pks_, sig_ptr)
    \/ \E kind \in Kinds : \E ptr1, ptr2 \in Handles(kind) :
         FfiCmp(kind, ptr1, ptr2)
    \/ \E kind \in Kinds : \E ptr1, ptr2 \in Handles(kind) :
         FfiEq(kind, ptr1, ptr2)
    \/ \E kind \in Kinds : \E ptr \in Handles(kind) : FfiToBytes(kind, ptr)
    \/ \E ptr \in Addrs : Free(ptr)

SpecFfi == InitFfi /\ [][NextFfi]_vars

Constructing ==
    {"bls_generate_secretkey", "bls_generate_secretkey_from_seed",
     "bls_derive_publickey", "bls_from_bytes", "bls_sign", "bls_aggregate",
     "bls_empty_sig"}

\* the step's call has returned an address that was not allocated and now is
NewHandle == ret'.ptr \in Addrs \ Live(heap) /\ ret'.ptr \in Live(heap')

\* the step's call leaves every value behind a handle as it was; a free
\* function releases the handle it was passed and no other
FrameKept ==
    \A a \in Live(heap) :
        \/ heap'[a] = heap[a]
        \/ ret'.fn = "bls_free" /\ ret'.args = <<a>> /\ heap'[a] = FreeCell

\* the caller keeps exactly the allocated handles, each once, and no call
\* has been passed a released handle
NoDoubleFreeNoUseAfterRelease ==
    /\ ret.fault = "none"
    /\ \A a \in Addrs :
         /\ Len(owned[a]) <= 1
         /\ owned[a] # <<>> <=> heap[a].live
         /\ heap[a].live => owned[a] = <<heap[a].kind>>

C20_Step ==
    /\ ret'.fn \in Constructing =>
          \/ NewHandle
          \/ ret'.fn = "bls_from_bytes" /\ ret'.ptr = NULL /\ heap' = heap
    /\ FrameKept

C20_StepAlwaysAllocates ==
    /\ ret'.fn \in Constructing => NewHandle
    /\ FrameKept

\* C20: every constructing entry point returns a newly allocated handle that
\* differs from every live handle, or, from-bytes only, the null handle when
\* the bytes do not decode; no entry point but the free functions releases or
\* changes the value behind a handle; so a caller that frees each returned
\* handle once frees no handle twice and uses none after its release
C20_HandlesFresh ==
    /\ []NoDoubleFreeNoUseAfterRelease
    /\ [][C20_Step]_vars

\* C20 as stated: every constructing entry point, from-bytes included,
\* returns a newly allocated handle
C20_EveryConstructorAllocates ==
    /\ []NoDoubleFreeNoUseAfterRelease
    /\ [][C20_StepAlwaysAllocates]_vars

C20_Witness ==
    /\ ret.fn = "bls_aggregate"
    /\ Cardinality(Live(heap)) = 3
    /\ Cardinality(Handles("sig")) = 3
    /\ heap[ret.ptr].val # zero_point
    /\ NoDoubleFreeNoUseAfterRelease

(***************************************************************************)
(* Amounts (rust-src/crypto_common/src/types.rs).                          *)
(*                                                                         *)
(* A u64 is kept at its full width as four limbs to the base 1_000_000,    *)
(* most significant first, so that u64::MAX is                             *)
(* <<18, 446744, 73709, 551615>>.  A string is the sequence of its         *)
(* characters.                                                             *)
(***************************************************************************)
AmountSpread == 1

MICRO == 1000000
DECIMALS == 6
u64_MAX == <<18, 446744, 73709, 551615>>

Some(v) == [some |-> TRUE, val |-> v]
None == [some |-> FALSE, val |-> 0]
ok_or(opt, e) == IF opt.some THEN Ok(opt.val) ELSE Err(e)

\* x < y for two u64
u64_less(x, y) ==
    \E i \in 1 .. 4 : x[i] < y[i] /\ \A j \in 1 .. (i - 1) : x[j] = y[j]

u64_from(d) == <<0, 0, 0, d>>

\* x * k + a in 64 bits, None when the result does not fit
checked_mul_add(x, k, a) ==
    LET t4 == x[4] * k + a
        t3 == x[3] * k + (t4 \div MICRO)
        t2 == x[2] * k + (t3 \div MICRO)
        t1 == x[1] * k + (t2 \div MICRO)
        r == <<t1 % MICRO, t2 % MICRO, t3 % MICRO, t4 % MICRO>>
    IN  IF t1 \div MICRO > 0 \/ u64_less(u64_MAX, r) THEN None ELSE Some(r)

checked_mul(x, k) == checked_mul_add(x, k, 0)
checked_add(x, d) == checked_mul_add(x, 1, d)

DigitChars == <<"0", "1", "2", "3", "4", "5", "6", "7", "8", "9">>

\* char::to_digit(10)
to_digit(c) ==
    IF \E d \in 1 .. 10 : DigitChars[d] = c
    THEN Some((CHOOSE d \in 1 .. 10 : DigitChars[d] = c) - 1)
    ELSE None

\* the decimal digits of n < MICRO, without leading zeros
RECURSIVE limb_digits(_)
limb_digits(n) ==
    IF n < 10 THEN <<DigitChars[n + 1]>>
    ELSE limb_digits(n \div 10) \o <<DigitChars[(n % 10) + 1]>>

\* the last w decimal digits of n, padded with zeros on the left
RECURSIVE zero_padded(_, _)
zero_padded(n, w) ==
    IF w = 0 THEN <<>>
    ELSE zero_padded(n \div 10, w - 1) \o <<DigitChars[(n % 10) + 1]>>

RECURSIVE padded_limbs(_, _)
padded_limbs(x, i) ==
    IF i > 4 THEN <<>>
    ELSE zero_padded(x[i], DECIMALS) \o padded_limbs(x, i + 1)

\* Display of a u64: "{}"
u64_to_string(x) ==
    LET nz == {i \in 1 .. 4 : x[i] # 0}
    IN  IF nz = {} THEN <<"0">>
        ELSE LET f == CHOOSE i \in nz : \A j \in nz : i <= j
             IN  limb_digits(x[f]) \o padded_limbs(x, f + 1)

\* microgtu / 1_000_000 and microgtu % 1_000_000
div_micro(x) == <<0, x[1], x[2], x[3]>>
mod_micro(x) == x[4]

\* Display of an Amount with "{}.{}" in place of "{}.{:06}"
Amount_fmt_unpadded(self) ==
    LET high == div_micro(self)
        low == mod_micro(self)
    IN  IF low = 0 THEN u64_to_string(high)
        ELSE u64_to_string(high) \o <<".">> \o limb_digits(low)

\* impl Display for Amount
Amount_fmt(self) ==
    LET high == div_micro(self)
        low == mod_micro(self)
    IN  IF low = 0 THEN u64_to_string(high)
        ELSE u64_to_string(high) \o <<".">> \o zero_padded(low, DECIMALS)

\* microgtu = microgtu.checked_mul(10).ok_or(Overflow)?;
\* microgtu = microgtu.checked_add(u64::from(d)).ok_or(Overflow)?;
push_digit(microgtu, d) ==
    LET m == ok_or(checked_mul(microgtu, 10), "Overflow")
    IN  IF ~m.ok THEN m ELSE ok_or(checked_add(m.val, d), "Overflow")

\* one turn of the loop over the characters: Err for an early return, Ok
\* with the new microgtu, after_dot and state otherwise
from_str_char(c, l) ==
    LET d == to_digit(c)
    IN  CASE l.state = 0 ->
               IF d.some
               THEN IF d.val = 0
                    THEN Ok([l EXCEPT !.state = 1])
                    ELSE Ok([l EXCEPT !.microgtu = u64_from(d.val),
                                      !.state = 2])
               ELSE Err("ExpectedDigit")
          [] l.state = 1 ->
               IF c # "." THEN Err("ExpectedDot")
               ELSE Ok([l EXCEPT !.state = 3])
          [] l.state = 2 ->
               IF d.some
               THEN LET m == push_digit(l.microgtu, d.val)
                    IN  IF ~m.ok THEN m
                        ELSE Ok([l EXCEPT !.microgtu = m.val])
               ELSE IF c = "." THEN Ok([l EXCEPT !.state = 3])
               ELSE Err("ExpectedDigitOrDot")
          [] l.state = 3 ->
               IF l.after_dot >= DECIMALS THEN Err("AtMostSixDecimals")
               ELSE IF d.some
               THEN LET m == push_digit(l.microgtu, d.val)
                    IN  IF ~m.ok THEN m
                        ELSE Ok([l EXCEPT !.microgtu = m.val,
                                          !.after_dot = @ + 1])
               ELSE Err("ExpectedDigit")

\* for c in v.chars() { ... }, from the i-th character
RECURSIVE from_str_chars(_, _, _)
from_str_chars(v, i, l) ==
    IF i > Len(v) THEN Ok(l)
    ELSE LET n == from_str_char(v[i], l)
         IN  IF ~n.ok THEN n ELSE from_str_chars(v, i + 1, n.val)

\* for _ in 0..6 - after_dot { microgtu = microgtu.checked_mul(10)...? }
RECURSIVE scale(_, _)
scale(microgtu, n) ==
    IF n = 0 THEN Ok(microgtu)
    ELSE LET m == ok_or(checked_mul(microgtu, 10), "Overflow")
         IN  IF ~m.ok THEN m ELSE scale(m.val, n - 1)

\* from_str that takes the digits read for the amount in microgtu
Amount_from_str_unscaled(v) ==
    LET r == from_str_chars(v, 1, [microgtu |-> u64_from(0),
                                   after_dot |-> 0, state |-> 0])
    IN  IF ~r.ok THEN r
        ELSE IF r.val.state = 0 \/ (r.val.state >= 3 /\ r.val.after_dot = 0)
        THEN Err("ExpectedMore")
        ELSE Ok(r.val.microgtu)

\* impl FromStr for Amount
Amount_from_str(v) ==
    LET r == from_str_chars(v, 1, [microgtu |-> u64_from(0),
                                   after_dot |-> 0, state |-> 0])
    IN  IF ~r.ok THEN r
        ELSE IF r.val.state = 0 \/ (r.val.state >= 3 /\ r.val.after_dot = 0)
        THEN Err("ExpectedMore")
        ELSE scale(r.val.microgtu, DECIMALS - r.val.after_dot)

\* the amounts under test: every limb is close to zero, to a power of ten,
\* to the largest limb or to the limb of u64::MAX at its place
Near(n) == {m \in (n - AmountSpread) .. (n + AmountSpread) : m >= 0 /\ m < MICRO}
LimbSamples(i) == Near(0) \cup Near(10) \cup Near(MICRO - 1) \cup Near(u64_MAX[i])
Amounts ==
    {x \in [1 .. 4 -> UNION {LimbSamples(i) : i \in 1 .. 4}] :
        /\ \A i \in 1 .. 4 : x[i] \in LimbSamples(i)
        /\ ~u64_less(u64_MAX, x)}

\* the strings of the test amount_serialization, and two more
AmountStrings ==
    { <<"0", ".">>,
      <<"0", ".", "1", "2", "3", "4", "5", "6", "7">>,
      <<"0", ".", "0", "0", "0", "0", "0", "0", "0", "0", "0">>,
      <<"0", "0", ".", "1", "2", "3", "4">>,
      <<"0", "1", ".", "1", "2", "3", "4">>,
      <<"0", ".", "1", "2", "3", "4">>,
      <<"0", ".", "0">>,
      <<".", "0">>,
      <<"1", "3">>,
      <<>>,
      <<"1", "x">>,
      <<"1", "8", "4", "4", "6", "7", "4", "4", "0", "7", "3", "7", "1", "0">> }

InitAmount ==
    /\ bkind = "amount"
    /\ obj \in Amounts \cup {<<>>}   \* <<>>: a string is parsed on its own
    /\ bsrc = "none"
    /\ buf = <<>>
    /\ dec = NoResult
    /\ NoBls /\ NoPs /\ NoFfi /\ NoSvc

\* let s = microgtu.to_string();
AmountToString ==
    /\ bkind = "amount" /\ bsrc = "none" /\ obj # <<>>
    /\ buf' = Amount_fmt(obj)
    /\ bsrc' = "to_string"
    /\ UNCHANGED <<bkind, obj, dec, blsVars, psVars, ffiVars, svcVars>>

\* a string that did not come from to_string
AmountReceive(s) ==
    /\ bkind = "amount" /\ bsrc = "none" /\ obj = <<>>
    /\ buf' = s
    /\ bsrc' = "received"
    /\ UNCHANGED <<bkind, obj, dec, blsVars, psVars, ffiVars, svcVars>>

\* let parsed = s.parse::<Amount>();
AmountParse ==
    /\ bkind = "amount" /\ bsrc # "none" /\ dec = NoResult
    /\ dec' = Amount_from_str(buf)
    /\ UNCHANGED <<bkind, obj, bsrc, buf, blsVars, psVars, ffiVars, svcVars>>

NextAmount ==
    \/ AmountToString
    \/ \E s \in AmountStrings : AmountReceive(s)
    \/ AmountParse

SpecAmount == InitAmount /\ [][NextAmount]_vars

\* what the test amount_serialization expects of the strings it lists
AmountTestCases ==
    (bsrc = "received" /\ dec # NoResult) =>
        /\ buf = <<"0", ".">> => dec = Err("ExpectedMore")
        /\ buf = <<"0", ".", "1", "2", "3", "4", "5", "6", "7">>
              => dec = Err("AtMostSixDecimals")
        /\ buf = <<"0", "0", ".", "1", "2", "3", "4">>
              => dec = Err("ExpectedDot")
        /\ buf = <<"0", ".", "1", "2", "3", "4">>
              => dec = Ok(<<0, 0, 0, 123400>>)
        /\ buf = <<"0", ".", "0">> => dec = Ok(u64_from(0))
        /\ buf = <<".", "0">> => dec = Err("ExpectedDigit")
        /\ buf = <<"1", "3">> => dec = Ok(<<0, 0, 13, 0>>)
        /\ buf = <<>> => dec = Err("ExpectedMore")
        /\ buf = <<"1", "x">> => dec = Err("ExpectedDigitOrDot")
        /\ Len(buf) = 14 => dec = Err("Overflow")

\* C21: for every u64 amount a, parsing the decimal string that Display
\* produces for a gives back Ok(a).
C21_AmountRoundTrip ==
    (bkind = "amount" /\ bsrc = "to_string" /\ dec # NoResult)
        => dec = Ok(obj)

\* the largest amount was written with six decimals and parsed back
C21_Witness ==
    /\ bkind = "amount" /\ bsrc = "to_string"
    /\ obj = u64_MAX
    /\ buf = <<"1", "8", "4", "4", "6", "7", "4", "4", "0", "7", "3", "7",
               "0", "9", ".", "5", "5", "1", "6", "1", "5">>
    /\ dec = Ok(u64_MAX)

(***************************************************************************)
(* The binary serialization of TransactionSignature (types.rs).            *)
(*                                                                         *)
(* A BTreeMap is a function on its set of keys and is walked in ascending  *)
(* key order.  Integers keep their width: a CredentialIndex, a KeyIndex    *)
(* and a byte are in 0 .. 255, and the casts `as u8`, `as u16` keep the    *)
(* low bits.                                                               *)
(***************************************************************************)
NumCredSamples == 2
MaxSigLen == 1

U8 == 256
U16 == 65536
as_u8(n) == n % U8
as_u16(n) == n % U16

\* Serial for u8 and for u16 (big-endian)
u8_serial(n) == <<n>>
u16_serial(n) == <<n \div U8, n % U8>>

\* source.get() for a u8 and for a u16
get_u8(source) ==
    LET rd == read_exact(source, 1)
    IN  IF ~rd.result.ok THEN rd
        ELSE [result |-> Ok(rd.result.val[1]), cursor |-> rd.cursor]
get_u16(source) ==
    LET rd == read_exact(source, 2)
    IN  IF ~rd.result.ok THEN rd
        ELSE [result |-> Ok(rd.result.val[1] * U8 + rd.result.val[2]),
              cursor |-> rd.cursor]

\* the keys of a BTreeMap in the order its iterator yields them
Ascending(S) ==
    [i \in 1 .. Cardinality(S) |->
        CHOOSE k \in S : Cardinality({j \in S : j < k}) = i - 1]

\* what a loop has written when its turns wrote parts[lo], .., parts[hi]
RECURSIVE written(_, _, _)
written(parts, lo, hi) ==
    IF lo > hi THEN <<>>
    ELSE IF lo = hi THEN parts[lo]
    ELSE LET mid == (lo + hi) \div 2
         IN  written(parts, lo, mid) \o written(parts, mid + 1, hi)

EmptyMap == <<>>
insert(map, k, v) ==
    [x \in (DOMAIN map) \cup {k} |-> IF x = k THEN v ELSE map[x]]

\* impl Serial for Signature
Signature_serial(self) == u16_serial(as_u16(Len(self))) \o self

\* impl Deserial for Signature
Signature_deserial(source) ==
    LET len == get_u16(source)
    IN  IF ~len.result.ok THEN len
        ELSE read_exact(len.cursor, len.result.val)

\* crate::serial_map_no_length: every key followed by its value
serial_map_no_length(map) ==
    LET keys == Ascending(DOMAIN map)
    IN  written([i \in 1 .. Len(keys) |->
                    u8_serial(keys[i]) \o Signature_serial(map[keys[i]])],
                1, Len(keys))

\* the state of a deserial loop: the source, the last key read, the map
\* built so far, and the error the loop returned with, if it did
Looping(source) ==
    [source |-> source, last |-> None, out |-> EmptyMap, err |-> "none"]
Failed(l, source, e) == [l EXCEPT !.source = source, !.err = e]
LoopResult(l) ==
    [result |-> IF l.err = "none" THEN Ok(l.out) ELSE Err(l.err),
     cursor |-> l.source]

\* crate::deserial_map_no_length: one entry
deserial_entry(l) ==
    LET k == get_u8(l.source)
    IN  IF ~k.result.ok THEN Failed(l, k.cursor, k.result.err)
        ELSE LET v == Signature_deserial(k.cursor)
             IN  IF ~v.result.ok THEN Failed(l, v.cursor, v.result.err)
                 ELSE IF l.last.some /\ k.result.val <= l.last.val
                 THEN Failed(l, v.cursor, "Keys not in order.")
                 ELSE [l EXCEPT !.source = v.cursor,
                                !.last = Some(k.result.val),
                                !.out = insert(@, k.result.val, v.result.val)]

\* n turns of that loop, which returns at the first error
RECURSIVE deserial_entries(_, _)
deserial_entries(l, n) ==
    IF n = 0 \/ l.err # "none" THEN l
    ELSE IF n = 1 THEN deserial_entry(l)
    ELSE deserial_entries(deserial_entries(l, n \div 2), n - (n \div 2))

deserial_map_no_length(source, len) ==
    LoopResult(deserial_entries(Looping(source), len))

\* impl Serial for TransactionSignature
TransactionSignature_serial(self) ==
    LET l == as_u8(Cardinality(DOMAIN self))
        idxs == Ascending(DOMAIN self)
    IN  u8_serial(l)
            \o written([i \in 1 .. Len(idxs) |->
                            LET map == self[idxs[i]]
                            IN  u8_serial(idxs[i])
                                    \o u8_serial(as_u8(Cardinality(DOMAIN map)))
                                    \o serial_map_no_length(map)],
                        1, Len(idxs))

\* impl Deserial for TransactionSignature: one turn of the loop
deserial_cred(l) ==
    LET idx == get_u8(l.source)
    IN  IF ~idx.result.ok THEN Failed(l, idx.cursor, idx.result.err)
        ELSE IF ~(~l.last.some \/ l.last.val < idx.result.val)
        THEN Failed(l, idx.cursor,
                    "Credential indices must be strictly increasing.")
        ELSE LET inner_len == get_u8(idx.cursor)
             IN  IF ~inner_len.result.ok
                 THEN Failed(l, inner_len.cursor, inner_len.result.err)
                 ELSE IF ~(inner_len.result.val > 0)
                 THEN Failed(l, inner_len.cursor,
                             "Each credential must have at least one signature.")
                 ELSE LET inner_map ==
                              deserial_map_no_length(inner_len.cursor,
                                                     inner_len.result.val)
                      IN  IF ~inner_map.result.ok
                          THEN Failed(l, inner_map.cursor, inner_map.result.err)
                          ELSE [l EXCEPT !.source = inner_map.cursor,
                                         !.last = Some(idx.result.val),
                                         !.out = insert(@, idx.result.val,
                                                        inner_map.result.val)]

\* for _ in 0..num_creds, which returns at the first failed ensure! or read
RECURSIVE deserial_creds(_, _)
deserial_creds(l, n) ==
    IF n = 0 \/ l.err # "none" THEN l
    ELSE IF n = 1 THEN deserial_cred(l)
    ELSE deserial_creds(deserial_creds(l, n \div 2), n - (n \div 2))

TransactionSignature_deserial(source) ==
    LET num_creds == get_u8(source)
    IN  IF ~num_creds.result.ok THEN num_creds
        ELSE IF ~(num_creds.result.val > 0)
        THEN [result |-> Err("Number of signatures must not be 0."),
              cursor |-> num_creds.cursor]
        ELSE LoopResult(deserial_creds(Looping(num_creds.cursor),
                                       num_creds.result.val))

\* the signatures under test: small ones over a few indices at both ends of
\* the range, and the largest maps and byte strings the types allow
CredSamples == {0} \cup {(U8 - 1) - i : i \in 0 .. (NumCredSamples - 2)}
KeySamples == {0, U8 - 1}
SigSamples == SeqsUpTo({1}, MaxSigLen)
NonEmptySubsets(S) == (SUBSET S) \ {{}}
InnerMaps == UNION {[K -> SigSamples] : K \in NonEmptySubsets(KeySamples)}
SmallSignatures == UNION {[C -> InnerMaps] : C \in NonEmptySubsets(CredSamples)}
OneKey(s) == 0 :> s
LargeSignatures ==
    { [c \in 0 .. (U8 - 2) |-> OneKey(<<>>)],
      [c \in 0 .. (U8 - 1) |-> OneKey(<<>>)],
      0 :> [k \in 0 .. (U8 - 2) |-> <<>>],
      0 :> [k \in 0 .. (U8 - 1) |-> <<>>],
      0 :> OneKey([i \in 1 .. (U16 - 1) |-> 1]),
      0 :> OneKey([i \in 1 .. U16 |-> 1]) }
TransactionSignatures == SmallSignatures \cup LargeSignatures

InitTxSig ==
    /\ bkind = "transaction_signature"
    /\ obj \in TransactionSignatures
    /\ bsrc = "none"
    /\ buf = <<>>
    /\ dec = NoResult
    /\ NoBls /\ NoPs /\ NoFfi /\ NoSvc

\* to_bytes(&signatures)
TxSigSerial ==
    /\ bkind = "transaction_signature" /\ bsrc = "none"
    /\ buf' = TransactionSignature_serial(obj)
    /\ bsrc' = "serial"
    /\ UNCHANGED <<bkind, obj, dec, blsVars, psVars, ffiVars, svcVars>>

\* TransactionSignature::deserial(&mut Cursor::new(bytes))
TxSigDeserial ==
    /\ bkind = "transaction_signature" /\ bsrc = "serial" /\ dec = NoResult
    /\ dec' = TransactionSignature_deserial(Cursor(buf)).result
    /\ UNCHANGED <<bkind, obj, bsrc, buf, blsVars, psVars, ffiVars, svcVars>>

NextTxSig == TxSigSerial \/ TxSigDeserial

SpecTxSig == InitTxSig /\ [][NextTxSig]_vars

TxSigDecoded == bkind = "transaction_signature" /\ dec # NoResult

\* C22: for every TransactionSignature with at least one credential index
\* and at least one key signature under each credential index,
\* deserial(serial(x)) succeeds and equals x.
C22_TxSigRoundTrip ==
    TxSigDecoded => dec = Ok(obj)

\* the round trip holds while every length fits the integer it is cast to
TxSigFits ==
    (/\ TxSigDecoded
     /\ Cardinality(DOMAIN obj) < U8
     /\ \A c \in DOMAIN obj :
           /\ Cardinality(DOMAIN obj[c]) < U8
           /\ \A k \in DOMAIN obj[c] : Len(obj[c][k]) < U16)
        => dec = Ok(obj)

(***************************************************************************)
(* The two signing paths of the Pointcheval-Sanders key (secret.rs).       *)
(***************************************************************************)
\* the commitment g1^(m_1*y_1 + .. + m_k*y_k) to the messages under the key
Commitment(key, message) ==
    mul_by_scalar(one_point, known_fold(Fr_zero, zip(message, key.ys)))

\* C23: for a key (y_1..y_n, x), messages m_1..m_k with k <= n and the same
\* drawn scalar r, sign_known_message(messages) returns the signature that
\* sign_unknown_message returns on the commitment g1^(sum of m_i*y_i), and
\* the other way round.
C23_PathsAgree ==
    /\ (KnownCall /\ Len(ps_in.message) <= Len(ps_key.ys)) =>
           ps_out = sign_unknown_message(ps_key,
                        Commitment(ps_key, ps_in.message), 0, ps_in.r).result
    /\ UnknownCall =>
           \A message \in KnownMessages :
               (/\ Len(message) <= Len(ps_key.ys)
                /\ Commitment(ps_key, message) = ps_in.message) =>
                   ps_out = sign_known_message(ps_key, message, 0,
                                               ps_in.r).result

\* a signature on two messages under a key with x # 0, made with r # 0, whose
\* commitment is not the identity
C23_Witness ==
    /\ KnownCall
    /\ Len(ps_in.message) = 2
    /\ Len(ps_key.ys) = 2
    /\ ps_in.r # 0
    /\ ps_key.x # 0
    /\ Commitment(ps_key, ps_in.message) # zero_point
    /\ ps_out.ok
    /\ ps_out.val[2] # zero_point
    /\ ps_out = sign_unknown_message(ps_key,
                    Commitment(ps_key, ps_in.message), 0, ps_in.r).result

(***************************************************************************)
(* The empty list of public keys (aggregate_sig.rs, ffi.rs).               *)
(***************************************************************************)
\* bls_verify_aggregate: the slice of key handles.  pks_ptr is the array it
\* points at, NULL when it points at no array.
pks_slice(pks_ptr, pks_len) ==
    IF pks_len = 0 THEN <<>> ELSE SubSeq(pks_ptr, 1, pks_len)

\* a heap that holds the signature s at address 1 and nothing else
OneSignature(s) == [a \in Addrs |-> IF a = 1 THEN Cell("sig", s) ELSE FreeCell]

\* C30: with an empty list of public keys verify_aggregate_sig_trusted_keys
\* returns true exactly when the signature is the identity of G_1, for every
\* message; so does bls_verify_aggregate with pks_len = 0, whatever its key
\* array pointer.
C30_EmptyKeyList ==
    /\ (/\ pc \in {"verified", "reverified"}
        /\ op = "verify_aggregate_sig_trusted_keys"
        /\ sks = <<>>)
           => res = (sig = zero_point)
    /\ \A m \in Messages, s \in G_1 :
           bls_verify_aggregate(OneSignature(s), m, pks_slice(NULL, 0), 1)
               = {s = zero_point}

\* the identity was accepted with no keys for a message that does not hash
\* to the identity
C30_Witness ==
    /\ pc = "verified"
    /\ op = "verify_aggregate_sig_trusted_keys"
    /\ sks = <<>>
    /\ hash_to_group(ms[1]) # zero_point
    /\ sig = zero_point
    /\ res = TRUE

(***************************************************************************)
(* The identity provider service (identity-provider-service/src/main.rs).  *)
(*                                                                         *)
(* The service keeps three directories of files named by key (revocation,  *)
(* identity, pending), a backup directory for deleted files, and the map   *)
(* DB.pending behind a mutex.  Every critical section of that mutex is one *)
(* step; what a task does between two critical sections, the HTTP calls    *)
(* it awaits included, is a step of its own where the claims speak of it.  *)
(* A task that panics inside a critical section poisons the mutex, and     *)
(* every later lock().unwrap() or lock().expect(..) panics.                *)
(***************************************************************************)
NumKeys == 1
MaxCreates == 2
MaxTasks == 3

\* base16_encode_string(id_cred_pub): the keys the service itself produces
Keys == {<<"0", DigitChars[i + 1]>> : i \in 1 .. NumKeys}
\* other path segments a retrieve request may carry
MalformedKeys == {<<"z", "z">>, <<"0">>}

HexDigits ==
    {DigitChars[i] : i \in 1 .. 10} \cup {"a", "b", "c", "d", "e", "f",
                                          "A", "B", "C", "D", "E", "F"}
\* hex::decode(key).is_err()
hex_decode_is_err(key) ==
    \/ Len(key) % 2 # 0
    \/ \E i \in 1 .. Len(key) : key[i] \notin HexDigits

\* enum SubmissionStatus, enum PendingStatus, struct PendingEntry
SubmissionStatus == {"Absent", "Received", "Committed", "Finalized"}
CouldNotSubmit ==
    [tag |-> "CouldNotSubmit", submission_id |-> "none", status |-> "none"]
Submitted(submission_id, status) ==
    [tag |-> "Submitted", submission_id |-> submission_id, status |-> status]
PendingEntry(status, value) == [status |-> status, value |-> value]

\* an entry of a HashMap or BTreeMap removed
remove(map, k) == [x \in (DOMAIN map) \ {k} |-> map[x]]

\* What an HTTP call returns: a transport error, or a response with a status
\* code and a body; the body is JSON of the expected type or it is not.
SubmissionIds == {"s1"}
NoJson == [json |-> FALSE, submission_id |-> "none", status |-> "none"]
InitialAccountReponse(id) ==
    [json |-> TRUE, submission_id |-> id, status |-> "none"]
SubmissionStatusResponse(s) ==
    [json |-> TRUE, submission_id |-> "none", status |-> s]
Response(code, body) == [sent |-> TRUE, status |-> code, body |-> body]
TransportError == [sent |-> FALSE, status |-> "none", body |-> NoJson]
NoResponse == [sent |-> FALSE, status |-> "not asked", body |-> NoJson]

\* the answers of the wallet proxy to PUT v0/submitCredential
SubmitResponses ==
    {Response("OK", InitialAccountReponse(id)) : id \in SubmissionIds}
        \cup {Response("OK", NoJson),
              Response("BAD_GATEWAY", NoJson),
              Response("BAD_REQUEST", NoJson),
              Response("SERVICE_UNAVAILABLE", NoJson),
              TransportError}

\* the answers of the wallet proxy to GET v0/submissionStatus/{id}
QueryResponses ==
    {Response("OK", SubmissionStatusResponse(s)) : s \in SubmissionStatus}
        \cup {Response("OK", NoJson),
              Response("NOT_FOUND", NoJson),
              TransportError}

\* submit_account_creation that takes BAD_GATEWAY for a rejection
submit_account_creation_gateway_rejects(response) ==
    IF response.sent
    THEN CASE response.status \in {"BAD_GATEWAY", "BAD_REQUEST"} ->
                Err("Failed validation of the reuse of malformed initial account.")
           [] response.status = "OK" ->
                IF response.body.json /\ response.body.submission_id # "none"
                THEN Ok(Submitted(response.body.submission_id, "Received"))
                ELSE Ok(CouldNotSubmit)
           [] OTHER -> Ok(CouldNotSubmit)
    ELSE Ok(CouldNotSubmit)

\* submit_account_creation, given what client.put(url).json(..).send().await
\* returned
submit_account_creation(response) ==
    IF response.sent
    THEN CASE response.status = "BAD_GATEWAY" -> Ok(CouldNotSubmit)
           [] response.status = "BAD_REQUEST" ->
                Err("Failed validation of the reuse of malformed initial account.")
           [] response.status = "OK" ->
                IF response.body.json /\ response.body.submission_id # "none"
                THEN Ok(Submitted(response.body.submission_id, "Received"))
                ELSE Ok(CouldNotSubmit)
           [] OTHER -> Ok(CouldNotSubmit)
    ELSE Ok(CouldNotSubmit)

\* The database: the files under database/ and database-deleted/, the map
\* DB.pending, and whether its mutex is poisoned.
DBState(files, hm, p) == [fs |-> files, pending |-> hm, poisoned |-> p]
db == DBState(fs, pending, poisoned)
\* what a call on the database leaves behind, and whether it panicked
Completed(d) == [db |-> d, panicked |-> FALSE]
Panicked(d) == [db |-> d, panicked |-> TRUE]
\* a panic of the thread that holds the lock poisons it
PanickedHoldingLock(files, hm) == Panicked(DBState(files, hm, TRUE))

\* DB::new: the entries of the files found in database/pending
DB_new(files) == [k \in DOMAIN files.pending |-> files.pending[k]]

\* DB::write_revocation_record
write_revocation_record(d, key) ==
    IF d.poisoned
    THEN Panicked(d)
    ELSE Completed([d EXCEPT !.fs.revocation = @ \cup {key}])

\* DB::write_identity_object
write_identity_object(d, key) ==
    IF d.poisoned
    THEN Panicked(d)
    ELSE Completed([d EXCEPT !.fs.identity = @ \cup {key}])

\* DB::write_pending
write_pending(d, key, status, value) ==
    IF d.poisoned
    THEN Panicked(d)
    ELSE LET entry == PendingEntry(status, value)
         IN  Completed([d EXCEPT !.fs.pending = insert(@, key, entry),
                                !.pending = insert(@, key, entry)])

\* DB::mark_finalized that tolerates a pending file that is already gone
mark_finalized_file_optional(d, key) ==
    IF d.poisoned
    THEN Panicked(d)
    ELSE Completed([d EXCEPT !.pending = remove(@, key),
                            !.fs.pending = remove(@, key)])

\* DB::mark_finalized
mark_finalized(d, key) ==
    IF d.poisoned
    THEN Panicked(d)
    ELSE LET hm == remove(d.pending, key)
         IN  IF key \in DOMAIN d.fs.pending
             THEN Completed([d EXCEPT !.pending = hm,
                                     !.fs.pending = remove(@, key)])
             ELSE PanickedHoldingLock(d.fs, hm)

\* DB::delete_all: two renames into the backup directories, which DB::new
\* does not create, then the pending file, then the entry of the map
delete_all(d, key) ==
    IF d.poisoned
    THEN Panicked(d)
    ELSE IF key \notin d.fs.revocation \/ ~d.fs.backup
    THEN PanickedHoldingLock(d.fs, d.pending)
    ELSE LET f1 == [d.fs EXCEPT !.revocation = @ \ {key},
                                !.deleted_revocation = @ \cup {key}]
         IN  IF key \notin f1.identity
             THEN PanickedHoldingLock(f1, d.pending)
             ELSE LET f2 == [f1 EXCEPT !.identity = @ \ {key},
                                       !.deleted_identity = @ \cup {key}]
                  IN  IF key \notin DOMAIN f2.pending
                      THEN PanickedHoldingLock(f2, d.pending)
                      ELSE Completed(DBState([f2 EXCEPT !.pending = remove(@, key)],
                                            remove(d.pending, key), FALSE))

\* DB::is_pending; the caller has checked that the lock is not poisoned
is_pending(d, key) == key \in DOMAIN d.pending

\* DB::read_identity_object, as far as the retrieve endpoint looks at it
read_identity_object(d, key) ==
    IF hex_decode_is_err(key)
    THEN Completed(d) @@ [result |-> Err("Invalid key.")]
    ELSE IF d.poisoned
    THEN Panicked(d) @@ [result |-> NoResult]
    ELSE IF key \in d.fs.identity
    THEN Completed(d) @@ [result |-> Ok(key)]
    ELSE Completed(d) @@ [result |-> Err("No such file or directory")]

\* the database after a call
Leaves(out) ==
    /\ fs' = out.db.fs
    /\ pending' = out.db.pending
    /\ poisoned' = out.db.poisoned

\* the files an earlier run of the service can have left under database/
NoFiles ==
    [revocation |-> {}, identity |-> {}, pending |-> EmptyMap, backup |-> FALSE,
     deleted_revocation |-> {}, deleted_identity |-> {}]
StoredStatuses ==
    {CouldNotSubmit} \cup {Submitted(id, "Received") : id \in SubmissionIds}
Disk(waiting, done, status, backup) ==
    [NoFiles EXCEPT !.revocation = waiting \cup done,
                    !.identity = waiting \cup done,
                    !.pending = [k \in waiting |-> PendingEntry(status[k], k)],
                    !.backup = backup]
Disks ==
    UNION {{Disk(waiting, done, status, backup) :
                done \in SUBSET (Keys \ waiting),
                status \in [waiting -> StoredStatuses],
                backup \in BOOLEAN} : waiting \in SUBSET Keys}

\* one request to api/identity, one followup task, one request to
\* api/identity/{id_cred_pub}
NoStatus == [tag |-> "none", submission_id |-> "none", status |-> "none"]
Request(key, at) ==
    [key |-> key, pc |-> at, response |-> NoResponse, result |-> NoResult]
Task(key) ==
    [key |-> key, pc |-> "get", v |-> NoStatus, response |-> NoResponse,
     result |-> NoResult]
NoReply == [key |-> <<>>, status |-> "none"]
Reply(key, status) == [key |-> key, status |-> status]

\* main: the database is opened and the server started; no task is spawned
InitService ==
    /\ fs \in Disks
    /\ pending = DB_new(fs)
    /\ poisoned = FALSE
    /\ requests = <<>>
    /\ tasks = <<>>
    /\ reply = NoReply
    /\ reported = fs.identity \ DOMAIN fs.pending
    /\ NoBls /\ NoPs /\ NoBytes /\ NoFfi

othersIdle == UNCHANGED <<blsVars, psVars, bytesVars, ffiVars>>

\* create_signed_identity_object up to save_revocation_record, for a request
\* that passed validation, the identity verifier and the signing
SaveRevocationRecord(key, limit) ==
    /\ Len(requests) < limit
    /\ LET out == write_revocation_record(db, key)
       IN  /\ Leaves(out)
           /\ requests' = Append(requests,
                  Request(key, IF out.panicked THEN "panicked"
                               ELSE "write_identity_object"))
    /\ UNCHANGED <<tasks, reply, reported>>
    /\ othersIdle

\* db.write_identity_object(&base16_encoded_id_cred_pub, &versioned_id)
WriteIdentityObject(i) ==
    /\ requests[i].pc = "write_identity_object"
    /\ LET out == write_identity_object(db, requests[i].key)
       IN  /\ Leaves(out)
           /\ requests' = [requests EXCEPT ![i].pc =
                  IF out.panicked THEN "panicked" ELSE "submit"]
    /\ UNCHANGED <<tasks, reply, reported>>
    /\ othersIdle

\* submit_account_creation(..).await in create_signed_identity_object
SubmitAccountCreation(i, response) ==
    /\ requests[i].pc = "submit"
    /\ requests' = [requests EXCEPT ![i].pc = "submitted",
                                    ![i].response = response,
                                    ![i].result = submit_account_creation(response)]
    /\ UNCHANGED <<fs, pending, poisoned, tasks, reply, reported>>
    /\ othersIdle

\* the match on the result: write_pending and tokio::spawn(followup(..)) and
\* the answer 302 Found, or the rejection ReuseOfRegId
WritePending(i) ==
    /\ requests[i].pc = "submitted"
    /\ IF requests[i].result.ok
       THEN LET out == write_pending(db, requests[i].key,
                                     requests[i].result.val, requests[i].key)
            IN  /\ Leaves(out)
                /\ requests' = [requests EXCEPT
                       ![i] = Request(@.key, IF out.panicked THEN "panicked"
                                             ELSE "FOUND")]
                /\ tasks' = IF out.panicked THEN tasks
                            ELSE Append(tasks, Task(requests[i].key))
       ELSE /\ requests' = [requests EXCEPT ![i] = Request(@.key, "ReuseOfRegId")]
            /\ UNCHANGED <<fs, pending, poisoned, tasks>>
    /\ UNCHANGED <<reply, reported>>
    /\ othersIdle

\* followup: let v = { db.pending.lock().unwrap().get(&key).cloned() }, at the
\* start of the task and after each sleep
FollowupGet(j) ==
    /\ tasks[j].pc \in {"get", "sleep"}
    /\ tasks' = [tasks EXCEPT ![j] =
           IF poisoned
           THEN [Task(@.key) EXCEPT !.pc = "panicked: lock"]
           ELSE IF @.key \notin DOMAIN pending
           THEN [Task(@.key) EXCEPT !.pc = "break: absent"]
           ELSE [Task(@.key) EXCEPT
                    !.v = pending[tasks[j].key].status,
                    !.pc = IF pending[tasks[j].key].status.tag = "CouldNotSubmit"
                           THEN "submit" ELSE "query"]]
    /\ UNCHANGED <<fs, pending, poisoned, requests, reply, reported>>
    /\ othersIdle

\* PendingStatus::CouldNotSubmit: submit_account_creation(..).await
FollowupSubmit(j, response) ==
    /\ tasks[j].pc = "submit"
    /\ tasks' = [tasks EXCEPT ![j].pc = "submitted",
                              ![j].response = response,
                              ![j].result = submit_account_creation(response)]
    /\ UNCHANGED <<fs, pending, poisoned, requests, reply, reported>>
    /\ othersIdle

\* the match on the result: the new status is stored in the entry, or
\* delete_all removes the identity
FollowupSubmitted(j) ==
    /\ tasks[j].pc = "submitted"
    /\ LET key == tasks[j].key
       IN  IF tasks[j].result.ok
           THEN /\ tasks' = [tasks EXCEPT ![j] =
                       [Task(key) EXCEPT !.pc =
                           IF poisoned THEN "panicked: lock"
                           ELSE IF key \in DOMAIN pending THEN "sleep"
                           ELSE "break: absent"]]
                /\ pending' = IF ~poisoned /\ key \in DOMAIN pending
                              THEN [pending EXCEPT ![key].status = tasks[j].result.val]
                              ELSE pending
                /\ UNCHANGED <<fs, poisoned>>
           ELSE LET out == delete_all(db, key)
                IN  /\ Leaves(out)
                    /\ tasks' = [tasks EXCEPT ![j] =
                           [Task(key) EXCEPT !.pc =
                               IF poisoned THEN "panicked: lock"
                               ELSE IF out.panicked THEN "panicked: delete_all"
                               ELSE "break: rejected"]]
    /\ UNCHANGED <<requests, reply, reported>>
    /\ othersIdle

\* PendingStatus::Submitted: client.get(query_url_base).send().await and the
\* matches on the response down to ss.status
FollowupQuery(j, response) ==
    /\ tasks[j].pc = "query"
    /\ LET finalized == /\ response.sent /\ response.status = "OK"
                        /\ response.body.json
                        /\ response.body.status = "Finalized"
       IN  /\ tasks' = [tasks EXCEPT
                  ![j].pc = IF finalized THEN "mark_finalized" ELSE "sleep",
                  ![j].response = response]
           /\ reported' = IF finalized THEN reported \cup {tasks[j].key}
                          ELSE reported
    /\ UNCHANGED <<fs, pending, poisoned, requests, reply>>
    /\ othersIdle

\* SubmissionStatus::Finalized: db.mark_finalized(&key); break
FollowupMarkFinalized(j) ==
    /\ tasks[j].pc = "mark_finalized"
    /\ LET out == mark_finalized(db, tasks[j].key)
       IN  /\ Leaves(out)
           /\ tasks' = [tasks EXCEPT ![j] =
                  [Task(@.key) EXCEPT !.pc =
                      IF poisoned THEN "panicked: lock"
                      ELSE IF out.panicked THEN "panicked: mark_finalized"
                      ELSE "break: finalized"]]
    /\ UNCHANGED <<requests, reply, reported>>
    /\ othersIdle

\* retrieve_identity: retrieval_db.is_pending(&id_cred_pub)
RetrieveIsPending(key) ==
    /\ reply.status # "read_identity_object"
    /\ reply' = IF poisoned THEN Reply(key, "panicked")
                ELSE IF is_pending(db, key) THEN Reply(key, "pending")
                ELSE Reply(key, "read_identity_object")
    /\ UNCHANGED <<fs, pending, poisoned, requests, tasks, reported>>
    /\ othersIdle

\* retrieve_identity: match retrieval_db.read_identity_object(&id_cred_pub)
RetrieveRead ==
    /\ reply.status = "read_identity_object"
    /\ LET out == read_identity_object(db, reply.key)
       IN  reply' = IF out.panicked THEN Reply(reply.key, "panicked")
                    ELSE IF out.result.ok THEN Reply(reply.key, "done")
                    ELSE Reply(reply.key, "error")
    /\ UNCHANGED <<fs, pending, poisoned, requests, tasks, reported>>
    /\ othersIdle

RetrieveKeys == Keys \cup MalformedKeys

\* create_signed_identity_object, while at most limit requests have arrived
CreateStep(limit) ==
    \/ \E key \in Keys : SaveRevocationRecord(key, limit)
    \/ \E i \in DOMAIN requests : WriteIdentityObject(i)
    \/ \E i \in DOMAIN requests, response \in SubmitResponses :
           SubmitAccountCreation(i, response)
    \/ \E i \in DOMAIN requests : WritePending(i)

\* followup
FollowupStep ==
    \/ \E j \in DOMAIN tasks : FollowupGet(j)
    \/ \E j \in DOMAIN tasks, response \in SubmitResponses :
           FollowupSubmit(j, response)
    \/ \E j \in DOMAIN tasks : FollowupSubmitted(j)
    \/ \E j \in DOMAIN tasks, response \in QueryResponses :
           FollowupQuery(j, response)
    \/ \E j \in DOMAIN tasks : FollowupMarkFinalized(j)

\* retrieve_identity
RetrieveStep ==
    \/ \E key \in RetrieveKeys : RetrieveIsPending(key)
    \/ RetrieveRead

\* the service with its two endpoints
NextService == CreateStep(MaxCreates) \/ FollowupStep \/ RetrieveStep
SpecService == InitService /\ [][NextService]_vars

\* the service with a single request to api/identity
NextOneRequest == CreateStep(1) \/ FollowupStep \/ RetrieveStep
SpecOneRequest == InitService /\ [][NextOneRequest]_vars

\* the tasks of the service alone: requests to api/identity and the followup
\* tasks they spawn
NextFollowup == CreateStep(MaxTasks) \/ FollowupStep
SpecFollowup == InitService /\ [][NextFollowup]_vars

\* C24: submit_account_creation returns Err only when the wallet proxy
\* answers BAD_REQUEST, Ok(Submitted { status: Received }) only for an OK
\* answer whose body parses to a submission id, and Ok(CouldNotSubmit) for
\* every other outcome: BAD_GATEWAY, any other status, an OK answer with an
\* unparsable body, a transport failure.  Stated for every call a request or
\* a followup task has just made, on the answer it got and the value it
\* holds.
AnsweredBadRequest(response) ==
    response.sent /\ response.status = "BAD_REQUEST"
AnsweredSubmissionId(response) ==
    /\ response.sent /\ response.status = "OK"
    /\ response.body.json /\ response.body.submission_id \in SubmissionIds
SubmitClassified(response, result) ==
    /\ ~result.ok <=> AnsweredBadRequest(response)
    /\ (result.ok /\ result.val.tag = "Submitted") <=> AnsweredSubmissionId(response)
    /\ AnsweredSubmissionId(response) =>
           result.val = Submitted(response.body.submission_id, "Received")
    /\ (~AnsweredBadRequest(response) /\ ~AnsweredSubmissionId(response)) =>
           (result.ok /\ result.val = CouldNotSubmit)
C24_SubmitOutcome ==
    /\ \A i \in DOMAIN requests :
           requests[i].pc = "submitted" =>
               SubmitClassified(requests[i].response, requests[i].result)
    /\ \A j \in DOMAIN tasks :
           tasks[j].pc = "submitted" =>
               SubmitClassified(tasks[j].response, tasks[j].result)

\* the task spawned after a submission that failed has resubmitted, and the
\* wallet proxy has answered with a submission id
C24_Witness ==
    /\ Len(requests) = 1 /\ requests[1].pc = "FOUND"
    /\ Len(tasks) = 1 /\ tasks[1].pc = "submitted"
    /\ tasks[1].response \in
           {Response("OK", InitialAccountReponse(id)) : id \in SubmissionIds}
    /\ tasks[1].result.ok /\ tasks[1].result.val.tag = "Submitted"

\* the answer of the retrieve endpoint to a request that runs on database d
\* without another task in between
retrieve_identity(d, key) ==
    IF d.poisoned THEN "panicked"
    ELSE IF is_pending(d, key) THEN "pending"
    ELSE IF read_identity_object(d, key).result.ok THEN "done"
    ELSE "error"

\* C25: the retrieve endpoint answers "pending" exactly when the key is in
\* the pending map at the time of the request; otherwise "done" when the key
\* is valid base16 and an identity object is stored under it, and "error" in
\* every other case; after mark_finalized(key) a request for key answers
\* "done", and after delete_all(key) it answers "error".  The first part is
\* stated for the two calls of the endpoint while the lock can be taken, the
\* second for the database a call of mark_finalized or delete_all that
\* returned leaves behind.
RetrieveAnswers ==
    /\ (reply.status # "read_identity_object" /\ reply' # reply /\ ~poisoned) =>
           (reply'.status = "pending" <=> reply'.key \in DOMAIN pending)
    /\ (reply.status = "read_identity_object" /\ reply' # reply /\ ~poisoned) =>
           /\ reply'.key = reply.key
           /\ reply'.status =
                  IF ~hex_decode_is_err(reply.key) /\ reply.key \in fs.identity
                  THEN "done" ELSE "error"
AfterMarkFinalized ==
    \A j \in DOMAIN tasks :
        (tasks[j].pc = "mark_finalized" /\ tasks'[j].pc = "break: finalized") =>
            retrieve_identity(db', tasks[j].key) = "done"
AfterDeleteAll ==
    \A j \in DOMAIN tasks :
        (tasks[j].pc = "submitted" /\ tasks'[j].pc = "break: rejected") =>
            retrieve_identity(db', tasks[j].key) = "error"
C25_RetrieveAnswers ==
    [][RetrieveAnswers /\ AfterMarkFinalized /\ AfterDeleteAll]_vars

Stopped ==
    {"break: absent", "break: finalized", "break: rejected",
     "panicked: lock", "panicked: mark_finalized", "panicked: delete_all"}
Running(j) == tasks[j].pc \notin Stopped

\* C26: with any number of followup tasks and create requests running
\* concurrently, two tasks for the same key included, mark_finalized and
\* delete_all are never executed for a key whose pending file or stored
\* records are already gone: no task panics on a failed remove or rename while
\* it holds the pending lock, so the lock is never poisoned.  Stated for a
\* service whose backup directories exist, where a rename or a remove fails
\* only because the file is gone.
C26_LockNeverPoisoned ==
    fs.backup =>
        /\ ~poisoned
        /\ \A j \in DOMAIN tasks :
               tasks[j].pc \notin {"panicked: mark_finalized", "panicked: delete_all"}

\* C27: in every reachable state of the service, the state right after
\* start-up with pending files already on disk included, every key in the
\* pending map has a running followup task for that key.
C27_PendingKeyHasTask ==
    \A key \in DOMAIN pending :
        \E j \in DOMAIN tasks : tasks[j].key = key /\ Running(j)

\* C28: a followup task leaves its loop only when the key is no longer in the
\* pending map, when the status query reports Finalized (after
\* mark_finalized) or when resubmission is rejected (after delete_all); for
\* Received, Committed, Absent and every query error it keeps the entry
\* unchanged and polls again; and once the wallet proxy reports Finalized the
\* key is removed from the pending map and the task terminates.  The last
\* part is stated for the step a task takes after it was told Finalized, and
\* all of it for a service whose backup directories exist.
IsFinalized(response) ==
    /\ response.sent /\ response.status = "OK"
    /\ response.body.json /\ response.body.status = "Finalized"
LeavesLoopFor(j) ==
    (Running(j) /\ tasks'[j].pc \in Stopped) =>
        \/ tasks[j].key \notin DOMAIN pending
        \/ /\ tasks[j].pc = "mark_finalized"
           /\ IsFinalized(tasks[j].response)
           /\ tasks'[j].pc \in {"break: finalized", "panicked: mark_finalized"}
        \/ /\ tasks[j].pc = "submitted" /\ ~tasks[j].result.ok
           /\ tasks'[j].pc \in {"break: rejected", "panicked: delete_all"}
PollsAgain(j) ==
    (tasks[j].pc = "query" /\ tasks'[j].pc # "query"
        /\ ~IsFinalized(tasks'[j].response)) =>
        /\ tasks'[j].pc = "sleep"
        /\ pending' = pending
FinalizedRemoves(j) ==
    (tasks[j].pc = "mark_finalized" /\ tasks'[j].pc # "mark_finalized") =>
        /\ tasks[j].key \notin DOMAIN pending'
        /\ tasks'[j].pc \in Stopped
C28_FollowupLoop ==
    [][fs.backup =>
          \A j \in DOMAIN tasks :
              LeavesLoopFor(j) /\ PollsAgain(j) /\ FinalizedRemoves(j)]_vars

\* C29: the retrieve endpoint never answers "done" for a key whose initial
\* account creation has not been reported Finalized: neither while
\* create_signed_identity_object is still running for that key, nor after the
\* submission was rejected with ReuseOfRegId.
C29_DoneOnlyAfterFinalized ==
    reply.status = "done" => reply.key \in reported

====
